---- MODULE Spec2Model ----
(***************************************************************************)
(* jp_vocab: the deterministic example-sentence synthesis engine           *)
(* (tools/build_vocab_master.py), the merge/override layer of its main,    *)
(* and the remote augmentation stage (tools/llm_expand_examples.py,        *)
(* tools/rebuild_vocab_master.py).                                         *)
(*                                                                         *)
(* Text.  A Python str is a sequence of characters.  TLA+ string literals  *)
(* are ASCII, so a character is written as a token: an ASCII character is  *)
(* itself ("a", "?", "|"), a hiragana letter is "h." and its Unicode name  *)
(* (か = "h.ka", し = "h.si", small ょ = "h.yo_small"), a kanji is "k."     *)
(* and its code point (確 = "k.78BA"), and                                  *)
(*   。 = "p.maru"   、 = "p.ten"   ？ (U+FF1F) = "p.qfw"                    *)
(*   〜 = "p.nami"   ー = "p.choon"  — (U+2014) = "p.emdash".               *)
(* In a template the tokens "{t}" and "{en}" are str.format's fields.      *)
(***************************************************************************)
EXTENDS Integers, Sequences, FiniteSets, TLC

-----------------------------------------------------------------------------
(* Python's str operations, on sequences of characters.                    *)

\* sub occurs in s at position i
StartsAt(s, sub, i) ==
    /\ i + Len(sub) - 1 <= Len(s)
    /\ \A k \in 1..Len(sub) : s[i + k - 1] = sub[k]

\* sub in s
contains(s, sub) == \E i \in 1..(Len(s) + 1) : StartsAt(s, sub, i)

\* s.endswith(suf)
endswith(s, suf) ==
    /\ Len(suf) <= Len(s)
    /\ StartsAt(s, suf, Len(s) - Len(suf) + 1)

RECURSIVE ReplaceFrom(_, _, _, _)
ReplaceFrom(s, old, new, i) ==
    IF i > Len(s) THEN <<>>
    ELSE IF StartsAt(s, old, i)
         THEN new \o ReplaceFrom(s, old, new, i + Len(old))
         ELSE <<s[i]>> \o ReplaceFrom(s, old, new, i + 1)

RECURSIVE Interleave(_, _, _)
Interleave(s, new, i) ==
    IF i > Len(s) THEN new
    ELSE new \o <<s[i]>> \o Interleave(s, new, i + 1)

\* s.replace(old, new): every non-overlapping occurrence, left to right; an
\* empty old matches before every character and at the end.
replace(s, old, new) ==
    IF old = <<>> THEN Interleave(s, new, 1) ELSE ReplaceFrom(s, old, new, 1)

RECURSIVE rstrip(_, _)
\* s.rstrip(chars)
rstrip(s, chars) ==
    IF s # <<>> /\ s[Len(s)] \in chars
    THEN rstrip(SubSeq(s, 1, Len(s) - 1), chars)
    ELSE s

RECURSIVE lstrip(_, _)
lstrip(s, chars) ==
    IF s # <<>> /\ s[1] \in chars THEN lstrip(Tail(s), chars) ELSE s

Whitespace == {" "}

\* s.strip()
strip(s) == lstrip(rstrip(s, Whitespace), Whitespace)

UpperToLower ==
    [c \in {"A", "B", "C", "D", "E", "F", "G", "H", "I", "J", "K", "L", "M",
            "N", "O", "P", "Q", "R", "S", "T", "U", "V", "W", "X", "Y", "Z"} |->
        CASE c = "A" -> "a" [] c = "B" -> "b" [] c = "C" -> "c" [] c = "D" -> "d"
          [] c = "E" -> "e" [] c = "F" -> "f" [] c = "G" -> "g" [] c = "H" -> "h"
          [] c = "I" -> "i" [] c = "J" -> "j" [] c = "K" -> "k" [] c = "L" -> "l"
          [] c = "M" -> "m" [] c = "N" -> "n" [] c = "O" -> "o" [] c = "P" -> "p"
          [] c = "Q" -> "q" [] c = "R" -> "r" [] c = "S" -> "s" [] c = "T" -> "t"
          [] c = "U" -> "u" [] c = "V" -> "v" [] c = "W" -> "w" [] c = "X" -> "x"
          [] c = "Y" -> "y" [] c = "Z" -> "z"]

\* s.lower()
lower(s) ==
    [k \in 1..Len(s) |-> IF s[k] \in DOMAIN UpperToLower THEN UpperToLower[s[k]] ELSE s[k]]

\* tmpl.format(<field>=val) for a template with the one field `field`
format(tmpl, field, val) == replace(tmpl, <<field>>, val)

-----------------------------------------------------------------------------
(* The template catalogs of make_example2 and make_example3, verbatim.     *)

\* specials: exact term -> hand-authored (jp, hira, en)
specials ==
    \* 結論から言うと -> (結論から言うと、問題ありません。, けつろんからいうと、もんだいありません。, Bottom line: no problem.)
    << <<<<"k.7D50", "k.8AD6", "h.ka", "h.ra", "k.8A00", "h.u", "h.to">>,
         <<"k.7D50", "k.8AD6", "h.ka", "h.ra", "k.8A00", "h.u", "h.to", "p.ten", "k.554F", "k.984C", "h.a", "h.ri", "h.ma", "h.se", "h.n", "p.maru">>,
         <<"h.ke", "h.tu", "h.ro", "h.n", "h.ka", "h.ra", "h.i", "h.u", "h.to", "p.ten", "h.mo", "h.n", "h.da", "h.i", "h.a", "h.ri", "h.ma", "h.se", "h.n", "p.maru">>,
         <<"B", "o", "t", "t", "o", "m", " ", "l", "i", "n", "e", ":", " ", "n", "o", " ", "p", "r", "o", "b", "l", "e", "m", ".">>>>,
    \* 次回までに -> (次回までに、対応します。, じかいまでに、たいおうします。, I'll handle it by next time.)
       <<<<"k.6B21", "k.56DE", "h.ma", "h.de", "h.ni">>,
         <<"k.6B21", "k.56DE", "h.ma", "h.de", "h.ni", "p.ten", "k.5BFE", "k.5FDC", "h.si", "h.ma", "h.su", "p.maru">>,
         <<"h.zi", "h.ka", "h.i", "h.ma", "h.de", "h.ni", "p.ten", "h.ta", "h.i", "h.o", "h.u", "h.si", "h.ma", "h.su", "p.maru">>,
         <<"I", "'", "l", "l", " ", "h", "a", "n", "d", "l", "e", " ", "i", "t", " ", "b", "y", " ", "n", "e", "x", "t", " ", "t", "i", "m", "e", ".">>>>,
    \* 前倒し -> (前倒しで進めます。, まえだおしですすめます。, We'll move it earlier.)
       <<<<"k.524D", "k.5012", "h.si">>,
         <<"k.524D", "k.5012", "h.si", "h.de", "k.9032", "h.me", "h.ma", "h.su", "p.maru">>,
         <<"h.ma", "h.e", "h.da", "h.o", "h.si", "h.de", "h.su", "h.su", "h.me", "h.ma", "h.su", "p.maru">>,
         <<"W", "e", "'", "l", "l", " ", "m", "o", "v", "e", " ", "i", "t", " ", "e", "a", "r", "l", "i", "e", "r", ".">>>>,
    \* 後ろ倒し -> (後ろ倒しにします。, うしろだおしにします。, We'll push it back.)
       <<<<"k.5F8C", "h.ro", "k.5012", "h.si">>,
         <<"k.5F8C", "h.ro", "k.5012", "h.si", "h.ni", "h.si", "h.ma", "h.su", "p.maru">>,
         <<"h.u", "h.si", "h.ro", "h.da", "h.o", "h.si", "h.ni", "h.si", "h.ma", "h.su", "p.maru">>,
         <<"W", "e", "'", "l", "l", " ", "p", "u", "s", "h", " ", "i", "t", " ", "b", "a", "c", "k", ".">>>>,
    \* 予定通り -> (予定通り進めます。, よていどおりすすめます。, We'll proceed as planned.)
       <<<<"k.4E88", "k.5B9A", "k.901A", "h.ri">>,
         <<"k.4E88", "k.5B9A", "k.901A", "h.ri", "k.9032", "h.me", "h.ma", "h.su", "p.maru">>,
         <<"h.yo", "h.te", "h.i", "h.do", "h.o", "h.ri", "h.su", "h.su", "h.me", "h.ma", "h.su", "p.maru">>,
         <<"W", "e", "'", "l", "l", " ", "p", "r", "o", "c", "e", "e", "d", " ", "a", "s", " ", "p", "l", "a", "n", "n", "e", "d", ".">>>>,
    \* いったん -> (いったん、ここで止めます。, いったん、ここでとめます。, For now, we'll stop here.)
       <<<<"h.i", "h.tu_small", "h.ta", "h.n">>,
         <<"h.i", "h.tu_small", "h.ta", "h.n", "p.ten", "h.ko", "h.ko", "h.de", "k.6B62", "h.me", "h.ma", "h.su", "p.maru">>,
         <<"h.i", "h.tu_small", "h.ta", "h.n", "p.ten", "h.ko", "h.ko", "h.de", "h.to", "h.me", "h.ma", "h.su", "p.maru">>,
         <<"F", "o", "r", " ", "n", "o", "w", ",", " ", "w", "e", "'", "l", "l", " ", "s", "t", "o", "p", " ", "h", "e", "r", "e", ".">>>>
    >>
\* make_example2, frames selected with seed suffix "|v1" (4 templates)
frames2_v1 ==
    \* (いま、{t}。, {en} now.)
    << <<<<"h.i", "h.ma", "p.ten", "{t}", "p.maru">>,
         <<"{en}", " ", "n", "o", "w", ".">>>>,
    \* (このあと、{t}。, {en} after this.)
       <<<<"h.ko", "h.no", "h.a", "h.to", "p.ten", "{t}", "p.maru">>,
         <<"{en}", " ", "a", "f", "t", "e", "r", " ", "t", "h", "i", "s", ".">>>>,
    \* ({t}ので、すこしまってください。, {en}, so please wait a moment.)
       <<<<"{t}", "h.no", "h.de", "p.ten", "h.su", "h.ko", "h.si", "h.ma", "h.tu_small", "h.te", "h.ku", "h.da", "h.sa", "h.i", "p.maru">>,
         <<"{en}", ",", " ", "s", "o", " ", "p", "l", "e", "a", "s", "e", " ", "w", "a", "i", "t", " ", "a", " ", "m", "o", "m", "e", "n", "t", ".">>>>,
    \* ({t}。おわったらおしえます。, {en}. I'll let you know when I'm done.)
       <<<<"{t}", "p.maru", "h.o", "h.wa", "h.tu_small", "h.ta", "h.ra", "h.o", "h.si", "h.e", "h.ma", "h.su", "p.maru">>,
         <<"{en}", ".", " ", "I", "'", "l", "l", " ", "l", "e", "t", " ", "y", "o", "u", " ", "k", "n", "o", "w", " ", "w", "h", "e", "n", " ", "I", "'", "m", " ", "d", "o", "n", "e", ".">>>>
    >>
\* make_example2, frames selected with seed suffix "|v2" (3 templates)
frames2_v2 ==
    \* (すみません、{t}。, {en}.)
    << <<<<"h.su", "h.mi", "h.ma", "h.se", "h.n", "p.ten", "{t}", "p.maru">>,
         <<"{en}", ".">>>>,
    \* (もういちど{t}。, {en} again.)
       <<<<"h.mo", "h.u", "h.i", "h.ti", "h.do", "{t}", "p.maru">>,
         <<"{en}", " ", "a", "g", "a", "i", "n", ".">>>>,
    \* (あとで{t}。, {en} later.)
       <<<<"h.a", "h.to", "h.de", "{t}", "p.maru">>,
         <<"{en}", " ", "l", "a", "t", "e", "r", ".">>>>
    >>
\* make_example2, frames selected with seed suffix "|v3" (3 templates)
frames2_v3 ==
    \* ({t}、もういちどかくにんします。, {en} — I'll double-check.)
    << <<<<"{t}", "p.ten", "h.mo", "h.u", "h.i", "h.ti", "h.do", "h.ka", "h.ku", "h.ni", "h.n", "h.si", "h.ma", "h.su", "p.maru">>,
         <<"{en}", " ", "p.emdash", " ", "I", "'", "l", "l", " ", "d", "o", "u", "b", "l", "e", "-", "c", "h", "e", "c", "k", ".">>>>,
    \* ({t}、いまのじょうきょうをきょうゆうします。, {en} — I'll share the current status.)
       <<<<"{t}", "p.ten", "h.i", "h.ma", "h.no", "h.zi", "h.yo_small", "h.u", "h.ki", "h.yo_small", "h.u", "h.wo", "h.ki", "h.yo_small", "h.u", "h.yu", "h.u", "h.si", "h.ma", "h.su", "p.maru">>,
         <<"{en}", " ", "p.emdash", " ", "I", "'", "l", "l", " ", "s", "h", "a", "r", "e", " ", "t", "h", "e", " ", "c", "u", "r", "r", "e", "n", "t", " ", "s", "t", "a", "t", "u", "s", ".">>>>,
    \* ({t}、つぎのすてっぷをせつめいします。, {en} — I'll explain the next steps.)
       <<<<"{t}", "p.ten", "h.tu", "h.gi", "h.no", "h.su", "h.te", "h.tu_small", "h.pu", "h.wo", "h.se", "h.tu", "h.me", "h.i", "h.si", "h.ma", "h.su", "p.maru">>,
         <<"{en}", " ", "p.emdash", " ", "I", "'", "l", "l", " ", "e", "x", "p", "l", "a", "i", "n", " ", "t", "h", "e", " ", "n", "e", "x", "t", " ", "s", "t", "e", "p", "s", ".">>>>
    >>
\* make_example2, frames selected with seed suffix "|v4" (3 templates)
frames2_v4 ==
    \* (このへんこうで{t}, Is there any impact from this change?)
    << <<<<"h.ko", "h.no", "h.he", "h.n", "h.ko", "h.u", "h.de", "{t}">>,
         <<"I", "s", " ", "t", "h", "e", "r", "e", " ", "a", "n", "y", " ", "i", "m", "p", "a", "c", "t", " ", "f", "r", "o", "m", " ", "t", "h", "i", "s", " ", "c", "h", "a", "n", "g", "e", "?">>>>,
    \* ({t}。, {en}?)
       <<<<"{t}", "p.maru">>,
         <<"{en}", "?">>>>,
    \* (いまのじょうきょうで{t}, {en}?)
       <<<<"h.i", "h.ma", "h.no", "h.zi", "h.yo_small", "h.u", "h.ki", "h.yo_small", "h.u", "h.de", "{t}">>,
         <<"{en}", "?">>>>
    >>
\* make_example2, frames selected with seed suffix "|v5" (3 templates)
frames2_v5 ==
    \* (きょうは{t}。, Today it's {en}.)
    << <<<<"h.ki", "h.yo_small", "h.u", "h.ha", "{t}", "p.maru">>,
         <<"T", "o", "d", "a", "y", " ", "i", "t", "'", "s", " ", "{en}", ".">>>>,
    \* (このけんは{t}。, For this item, it's {en}.)
       <<<<"h.ko", "h.no", "h.ke", "h.n", "h.ha", "{t}", "p.maru">>,
         <<"F", "o", "r", " ", "t", "h", "i", "s", " ", "i", "t", "e", "m", ",", " ", "i", "t", "'", "s", " ", "{en}", ".">>>>,
    \* (いまは{t}。, Right now, it's {en}.)
       <<<<"h.i", "h.ma", "h.ha", "{t}", "p.maru">>,
         <<"R", "i", "g", "h", "t", " ", "n", "o", "w", ",", " ", "i", "t", "'", "s", " ", "{en}", ".">>>>
    >>
\* make_example2, frames selected with seed suffix "|m1" (5 templates)
frames2_m1 ==
    \* (まず{t}をそろえましょう。, Let's align on {en} first.)
    << <<<<"h.ma", "h.zu", "{t}", "h.wo", "h.so", "h.ro", "h.e", "h.ma", "h.si", "h.yo_small", "h.u", "p.maru">>,
         <<"L", "e", "t", "'", "s", " ", "a", "l", "i", "g", "n", " ", "o", "n", " ", "{en}", " ", "f", "i", "r", "s", "t", ".">>>>,
    \* ({t}をきめてからすすみます。, We'll proceed after deciding {en}.)
       <<<<"{t}", "h.wo", "h.ki", "h.me", "h.te", "h.ka", "h.ra", "h.su", "h.su", "h.mi", "h.ma", "h.su", "p.maru">>,
         <<"W", "e", "'", "l", "l", " ", "p", "r", "o", "c", "e", "e", "d", " ", "a", "f", "t", "e", "r", " ", "d", "e", "c", "i", "d", "i", "n", "g", " ", "{en}", ".">>>>,
    \* (この{t}はどうおもいますか。, What do you think about this {en}?)
       <<<<"h.ko", "h.no", "{t}", "h.ha", "h.do", "h.u", "h.o", "h.mo", "h.i", "h.ma", "h.su", "h.ka", "p.maru">>,
         <<"W", "h", "a", "t", " ", "d", "o", " ", "y", "o", "u", " ", "t", "h", "i", "n", "k", " ", "a", "b", "o", "u", "t", " ", "t", "h", "i", "s", " ", "{en}", "?">>>>,
    \* ({t}をみなおして、つぎにすすみます。, We'll revisit {en} and move forward.)
       <<<<"{t}", "h.wo", "h.mi", "h.na", "h.o", "h.si", "h.te", "p.ten", "h.tu", "h.gi", "h.ni", "h.su", "h.su", "h.mi", "h.ma", "h.su", "p.maru">>,
         <<"W", "e", "'", "l", "l", " ", "r", "e", "v", "i", "s", "i", "t", " ", "{en}", " ", "a", "n", "d", " ", "m", "o", "v", "e", " ", "f", "o", "r", "w", "a", "r", "d", ".">>>>,
    \* ({t}をきょうゆうしてもらえますか。, Could you share the {en}?)
       <<<<"{t}", "h.wo", "h.ki", "h.yo_small", "h.u", "h.yu", "h.u", "h.si", "h.te", "h.mo", "h.ra", "h.e", "h.ma", "h.su", "h.ka", "p.maru">>,
         <<"C", "o", "u", "l", "d", " ", "y", "o", "u", " ", "s", "h", "a", "r", "e", " ", "t", "h", "e", " ", "{en}", "?">>>>
    >>
\* make_example2, frames selected with seed suffix "|t1" (10 templates)
frames2_t1 ==
    \* (この{t}をつかって、けっかをくらべます。, We'll use {en} and compare results.)
    << <<<<"h.ko", "h.no", "{t}", "h.wo", "h.tu", "h.ka", "h.tu_small", "h.te", "p.ten", "h.ke", "h.tu_small", "h.ka", "h.wo", "h.ku", "h.ra", "h.be", "h.ma", "h.su", "p.maru">>,
         <<"W", "e", "'", "l", "l", " ", "u", "s", "e", " ", "{en}", " ", "a", "n", "d", " ", "c", "o", "m", "p", "a", "r", "e", " ", "r", "e", "s", "u", "l", "t", "s", ".">>>>,
    \* ({t}をかえて、せいのうをみます。, We'll adjust {en} and check performance.)
       <<<<"{t}", "h.wo", "h.ka", "h.e", "h.te", "p.ten", "h.se", "h.i", "h.no", "h.u", "h.wo", "h.mi", "h.ma", "h.su", "p.maru">>,
         <<"W", "e", "'", "l", "l", " ", "a", "d", "j", "u", "s", "t", " ", "{en}", " ", "a", "n", "d", " ", "c", "h", "e", "c", "k", " ", "p", "e", "r", "f", "o", "r", "m", "a", "n", "c", "e", ".">>>>,
    \* ({t}をためして、ばらつきをしらべます。, We'll test {en} and look for variability.)
       <<<<"{t}", "h.wo", "h.ta", "h.me", "h.si", "h.te", "p.ten", "h.ba", "h.ra", "h.tu", "h.ki", "h.wo", "h.si", "h.ra", "h.be", "h.ma", "h.su", "p.maru">>,
         <<"W", "e", "'", "l", "l", " ", "t", "e", "s", "t", " ", "{en}", " ", "a", "n", "d", " ", "l", "o", "o", "k", " ", "f", "o", "r", " ", "v", "a", "r", "i", "a", "b", "i", "l", "i", "t", "y", ".">>>>,
    \* ({t}をついかして、せいどをあげます。, We'll add {en} to improve accuracy.)
       <<<<"{t}", "h.wo", "h.tu", "h.i", "h.ka", "h.si", "h.te", "p.ten", "h.se", "h.i", "h.do", "h.wo", "h.a", "h.ge", "h.ma", "h.su", "p.maru">>,
         <<"W", "e", "'", "l", "l", " ", "a", "d", "d", " ", "{en}", " ", "t", "o", " ", "i", "m", "p", "r", "o", "v", "e", " ", "a", "c", "c", "u", "r", "a", "c", "y", ".">>>>,
    \* ({t}をへらして、ふかをさげます。, We'll reduce {en} to lower load.)
       <<<<"{t}", "h.wo", "h.he", "h.ra", "h.si", "h.te", "p.ten", "h.hu", "h.ka", "h.wo", "h.sa", "h.ge", "h.ma", "h.su", "p.maru">>,
         <<"W", "e", "'", "l", "l", " ", "r", "e", "d", "u", "c", "e", " ", "{en}", " ", "t", "o", " ", "l", "o", "w", "e", "r", " ", "l", "o", "a", "d", ".">>>>,
    \* ({t}のせっていをきろくします。, We'll document the {en} settings.)
       <<<<"{t}", "h.no", "h.se", "h.tu_small", "h.te", "h.i", "h.wo", "h.ki", "h.ro", "h.ku", "h.si", "h.ma", "h.su", "p.maru">>,
         <<"W", "e", "'", "l", "l", " ", "d", "o", "c", "u", "m", "e", "n", "t", " ", "t", "h", "e", " ", "{en}", " ", "s", "e", "t", "t", "i", "n", "g", "s", ".">>>>,
    \* ({t}のちがいをせつめいできますか。, Can you explain {en}?)
       <<<<"{t}", "h.no", "h.ti", "h.ga", "h.i", "h.wo", "h.se", "h.tu", "h.me", "h.i", "h.de", "h.ki", "h.ma", "h.su", "h.ka", "p.maru">>,
         <<"C", "a", "n", " ", "y", "o", "u", " ", "e", "x", "p", "l", "a", "i", "n", " ", "{en}", "?">>>>,
    \* ({t}をえらぶりゆうをきょうゆうしてください。, Please share why we chose {en}.)
       <<<<"{t}", "h.wo", "h.e", "h.ra", "h.bu", "h.ri", "h.yu", "h.u", "h.wo", "h.ki", "h.yo_small", "h.u", "h.yu", "h.u", "h.si", "h.te", "h.ku", "h.da", "h.sa", "h.i", "p.maru">>,
         <<"P", "l", "e", "a", "s", "e", " ", "s", "h", "a", "r", "e", " ", "w", "h", "y", " ", "w", "e", " ", "c", "h", "o", "s", "e", " ", "{en}", ".">>>>,
    \* (まず{t}をみなおします。, First, we'll revisit {en}.)
       <<<<"h.ma", "h.zu", "{t}", "h.wo", "h.mi", "h.na", "h.o", "h.si", "h.ma", "h.su", "p.maru">>,
         <<"F", "i", "r", "s", "t", ",", " ", "w", "e", "'", "l", "l", " ", "r", "e", "v", "i", "s", "i", "t", " ", "{en}", ".">>>>,
    \* (このしすてむで{t}をつかいます。, We'll use {en} in this system.)
       <<<<"h.ko", "h.no", "h.si", "h.su", "h.te", "h.mu", "h.de", "{t}", "h.wo", "h.tu", "h.ka", "h.i", "h.ma", "h.su", "p.maru">>,
         <<"W", "e", "'", "l", "l", " ", "u", "s", "e", " ", "{en}", " ", "i", "n", " ", "t", "h", "i", "s", " ", "s", "y", "s", "t", "e", "m", ".">>>>
    >>
\* make_example3, frames selected with seed suffix "|mperm" (3 templates)
frames3_mperm ==
    \* ({t}。ごふんだけいいですか。, {en}. Do you have five minutes?)
    << <<<<"{t}", "p.maru", "h.go", "h.hu", "h.n", "h.da", "h.ke", "h.i", "h.i", "h.de", "h.su", "h.ka", "p.maru">>,
         <<"{en}", ".", " ", "D", "o", " ", "y", "o", "u", " ", "h", "a", "v", "e", " ", "f", "i", "v", "e", " ", "m", "i", "n", "u", "t", "e", "s", "?">>>>,
    \* ({t}。いまきめきれません。, {en}. I can't decide right now.)
       <<<<"{t}", "p.maru", "h.i", "h.ma", "h.ki", "h.me", "h.ki", "h.re", "h.ma", "h.se", "h.n", "p.maru">>,
         <<"{en}", ".", " ", "I", " ", "c", "a", "n", "'", "t", " ", "d", "e", "c", "i", "d", "e", " ", "r", "i", "g", "h", "t", " ", "n", "o", "w", ".">>>>,
    \* (このけん、{t}。あとでじかんをください。, {en} on this—please give me some time later.)
       <<<<"h.ko", "h.no", "h.ke", "h.n", "p.ten", "{t}", "p.maru", "h.a", "h.to", "h.de", "h.zi", "h.ka", "h.n", "h.wo", "h.ku", "h.da", "h.sa", "h.i", "p.maru">>,
         <<"{en}", " ", "o", "n", " ", "t", "h", "i", "s", "p.emdash", "p", "l", "e", "a", "s", "e", " ", "g", "i", "v", "e", " ", "m", "e", " ", "s", "o", "m", "e", " ", "t", "i", "m", "e", " ", "l", "a", "t", "e", "r", ".">>>>
    >>
\* frames3_kudasai as it would be had its third frame been copied whole from
\* make_example2's first ください frame ("すみません、{t}。", "{en}.")
frames3_kudasai_copied ==
    << <<<<"{t}", "p.maru", "h.yo", "h.ro", "h.si", "h.ku", "h.o", "h.ne", "h.ga", "h.i", "h.si", "h.ma", "h.su", "p.maru">>,
         <<"{en}", ".", " ", "T", "h", "a", "n", "k", " ", "y", "o", "u", ".">>>>,
       <<<<"{t}", "p.maru", "h.a", "h.to", "h.de", "h.de", "h.mo", "h.da", "h.i", "h.zi", "h.yo_small", "h.u", "h.bu", "h.de", "h.su", "p.maru">>,
         <<"{en}", ".", " ", "L", "a", "t", "e", "r", " ", "i", "s", " ", "f", "i", "n", "e", " ", "t", "o", "o", ".">>>>,
       frames2_v2[1]
    >>

\* make_example3, frames selected with seed suffix "|kudasai" (3 templates)
frames3_kudasai ==
    \* ({t}。よろしくおねがいします。, {en}. Thank you.)
    << <<<<"{t}", "p.maru", "h.yo", "h.ro", "h.si", "h.ku", "h.o", "h.ne", "h.ga", "h.i", "h.si", "h.ma", "h.su", "p.maru">>,
         <<"{en}", ".", " ", "T", "h", "a", "n", "k", " ", "y", "o", "u", ".">>>>,
    \* ({t}。あとででもだいじょうぶです。, {en}. Later is fine too.)
       <<<<"{t}", "p.maru", "h.a", "h.to", "h.de", "h.de", "h.mo", "h.da", "h.i", "h.zi", "h.yo_small", "h.u", "h.bu", "h.de", "h.su", "p.maru">>,
         <<"{en}", ".", " ", "L", "a", "t", "e", "r", " ", "i", "s", " ", "f", "i", "n", "e", " ", "t", "o", "o", ".">>>>,
    \* (すみません、{t}。, {en}. Sorry to bother you.)
       <<<<"h.su", "h.mi", "h.ma", "h.se", "h.n", "p.ten", "{t}", "p.maru">>,
         <<"{en}", ".", " ", "S", "o", "r", "r", "y", " ", "t", "o", " ", "b", "o", "t", "h", "e", "r", " ", "y", "o", "u", ".">>>>
    >>
\* make_example3, frames selected with seed suffix "|suru" (4 templates)
frames3_suru ==
    \* ({t}。そのあと、つぎにすすみます。, {en}. Then we'll move on.)
    << <<<<"{t}", "p.maru", "h.so", "h.no", "h.a", "h.to", "p.ten", "h.tu", "h.gi", "h.ni", "h.su", "h.su", "h.mi", "h.ma", "h.su", "p.maru">>,
         <<"{en}", ".", " ", "T", "h", "e", "n", " ", "w", "e", "'", "l", "l", " ", "m", "o", "v", "e", " ", "o", "n", ".">>>>,
    \* (あとで{t}。いまはべつのたいおうちゅうです。, {en} later. I'm handling something else right now.)
       <<<<"h.a", "h.to", "h.de", "{t}", "p.maru", "h.i", "h.ma", "h.ha", "h.be", "h.tu", "h.no", "h.ta", "h.i", "h.o", "h.u", "h.ti", "h.yu_small", "h.u", "h.de", "h.su", "p.maru">>,
         <<"{en}", " ", "l", "a", "t", "e", "r", ".", " ", "I", "'", "m", " ", "h", "a", "n", "d", "l", "i", "n", "g", " ", "s", "o", "m", "e", "t", "h", "i", "n", "g", " ", "e", "l", "s", "e", " ", "r", "i", "g", "h", "t", " ", "n", "o", "w", ".">>>>,
    \* ({t}。すこしじかんをください。, {en}. Please give me a bit of time.)
       <<<<"{t}", "p.maru", "h.su", "h.ko", "h.si", "h.zi", "h.ka", "h.n", "h.wo", "h.ku", "h.da", "h.sa", "h.i", "p.maru">>,
         <<"{en}", ".", " ", "P", "l", "e", "a", "s", "e", " ", "g", "i", "v", "e", " ", "m", "e", " ", "a", " ", "b", "i", "t", " ", "o", "f", " ", "t", "i", "m", "e", ".">>>>,
    \* ({t}。おわったらすぐにおしえます。, {en}. I'll let you know once it's done.)
       <<<<"{t}", "p.maru", "h.o", "h.wa", "h.tu_small", "h.ta", "h.ra", "h.su", "h.gu", "h.ni", "h.o", "h.si", "h.e", "h.ma", "h.su", "p.maru">>,
         <<"{en}", ".", " ", "I", "'", "l", "l", " ", "l", "e", "t", " ", "y", "o", "u", " ", "k", "n", "o", "w", " ", "o", "n", "c", "e", " ", "i", "t", "'", "s", " ", "d", "o", "n", "e", ".">>>>
    >>
\* make_example3, frames selected with seed suffix "|nen" (3 templates)
frames3_nen ==
    \* ({t}、ろぐをみます。, {en}, I'll check the logs.)
    << <<<<"{t}", "p.ten", "h.ro", "h.gu", "h.wo", "h.mi", "h.ma", "h.su", "p.maru">>,
         <<"{en}", ",", " ", "I", "'", "l", "l", " ", "c", "h", "e", "c", "k", " ", "t", "h", "e", " ", "l", "o", "g", "s", ".">>>>,
    \* ({t}、すくりーんしょっとをとります。, {en}, I'll take a screenshot.)
       <<<<"{t}", "p.ten", "h.su", "h.ku", "h.ri", "p.choon", "h.n", "h.si", "h.yo_small", "h.tu_small", "h.to", "h.wo", "h.to", "h.ri", "h.ma", "h.su", "p.maru">>,
         <<"{en}", ",", " ", "I", "'", "l", "l", " ", "t", "a", "k", "e", " ", "a", " ", "s", "c", "r", "e", "e", "n", "s", "h", "o", "t", ".">>>>,
    \* ({t}、めもをのこします。, {en}, I'll leave a note.)
       <<<<"{t}", "p.ten", "h.me", "h.mo", "h.wo", "h.no", "h.ko", "h.si", "h.ma", "h.su", "p.maru">>,
         <<"{en}", ",", " ", "I", "'", "l", "l", " ", "l", "e", "a", "v", "e", " ", "a", " ", "n", "o", "t", "e", ".">>>>
    >>
\* make_example3, frames selected with seed suffix "|m" (4 templates)
frames3_m ==
    \* (この{t}はあとでまとめます。, We'll summarize this {en} later.)
    << <<<<"h.ko", "h.no", "{t}", "h.ha", "h.a", "h.to", "h.de", "h.ma", "h.to", "h.me", "h.ma", "h.su", "p.maru">>,
         <<"W", "e", "'", "l", "l", " ", "s", "u", "m", "m", "a", "r", "i", "z", "e", " ", "t", "h", "i", "s", " ", "{en}", " ", "l", "a", "t", "e", "r", ".">>>>,
    \* ({t}がずれているかもしれません。, {en} might be misaligned.)
       <<<<"{t}", "h.ga", "h.zu", "h.re", "h.te", "h.i", "h.ru", "h.ka", "h.mo", "h.si", "h.re", "h.ma", "h.se", "h.n", "p.maru">>,
         <<"{en}", " ", "m", "i", "g", "h", "t", " ", "b", "e", " ", "m", "i", "s", "a", "l", "i", "g", "n", "e", "d", ".">>>>,
    \* ({t}をかくにんしてから、けつろんをだします。, We'll confirm {en} before we conclude.)
       <<<<"{t}", "h.wo", "h.ka", "h.ku", "h.ni", "h.n", "h.si", "h.te", "h.ka", "h.ra", "p.ten", "h.ke", "h.tu", "h.ro", "h.n", "h.wo", "h.da", "h.si", "h.ma", "h.su", "p.maru">>,
         <<"W", "e", "'", "l", "l", " ", "c", "o", "n", "f", "i", "r", "m", " ", "{en}", " ", "b", "e", "f", "o", "r", "e", " ", "w", "e", " ", "c", "o", "n", "c", "l", "u", "d", "e", ".">>>>,
    \* ({t}をへんこうするよていはありますか。, Do we plan to change the {en}?)
       <<<<"{t}", "h.wo", "h.he", "h.n", "h.ko", "h.u", "h.su", "h.ru", "h.yo", "h.te", "h.i", "h.ha", "h.a", "h.ri", "h.ma", "h.su", "h.ka", "p.maru">>,
         <<"D", "o", " ", "w", "e", " ", "p", "l", "a", "n", " ", "t", "o", " ", "c", "h", "a", "n", "g", "e", " ", "t", "h", "e", " ", "{en}", "?">>>>
    >>
\* make_example3, frames selected with seed suffix "|t" (5 templates)
frames3_t ==
    \* ({t}をぶんせきして、げんいんをさがします。, We'll analyze {en} and look for the root cause.)
    << <<<<"{t}", "h.wo", "h.bu", "h.n", "h.se", "h.ki", "h.si", "h.te", "p.ten", "h.ge", "h.n", "h.i", "h.n", "h.wo", "h.sa", "h.ga", "h.si", "h.ma", "h.su", "p.maru">>,
         <<"W", "e", "'", "l", "l", " ", "a", "n", "a", "l", "y", "z", "e", " ", "{en}", " ", "a", "n", "d", " ", "l", "o", "o", "k", " ", "f", "o", "r", " ", "t", "h", "e", " ", "r", "o", "o", "t", " ", "c", "a", "u", "s", "e", ".">>>>,
    \* ({t}をもとに、けっていをします。, We'll make a decision based on {en}.)
       <<<<"{t}", "h.wo", "h.mo", "h.to", "h.ni", "p.ten", "h.ke", "h.tu_small", "h.te", "h.i", "h.wo", "h.si", "h.ma", "h.su", "p.maru">>,
         <<"W", "e", "'", "l", "l", " ", "m", "a", "k", "e", " ", "a", " ", "d", "e", "c", "i", "s", "i", "o", "n", " ", "b", "a", "s", "e", "d", " ", "o", "n", " ", "{en}", ".">>>>,
    \* ({t}をいったんさくじょして、えいきょうをみます。, We'll temporarily remove {en} and see the impact.)
       <<<<"{t}", "h.wo", "h.i", "h.tu_small", "h.ta", "h.n", "h.sa", "h.ku", "h.zi", "h.yo_small", "h.si", "h.te", "p.ten", "h.e", "h.i", "h.ki", "h.yo_small", "h.u", "h.wo", "h.mi", "h.ma", "h.su", "p.maru">>,
         <<"W", "e", "'", "l", "l", " ", "t", "e", "m", "p", "o", "r", "a", "r", "i", "l", "y", " ", "r", "e", "m", "o", "v", "e", " ", "{en}", " ", "a", "n", "d", " ", "s", "e", "e", " ", "t", "h", "e", " ", "i", "m", "p", "a", "c", "t", ".">>>>,
    \* ({t}をさいていぎして、けいそくしなおします。, We'll redefine {en} and measure again.)
       <<<<"{t}", "h.wo", "h.sa", "h.i", "h.te", "h.i", "h.gi", "h.si", "h.te", "p.ten", "h.ke", "h.i", "h.so", "h.ku", "h.si", "h.na", "h.o", "h.si", "h.ma", "h.su", "p.maru">>,
         <<"W", "e", "'", "l", "l", " ", "r", "e", "d", "e", "f", "i", "n", "e", " ", "{en}", " ", "a", "n", "d", " ", "m", "e", "a", "s", "u", "r", "e", " ", "a", "g", "a", "i", "n", ".">>>>,
    \* ({t}をさいげんできるように、ろぐをのこします。, We'll keep logs so we can reproduce {en}.)
       <<<<"{t}", "h.wo", "h.sa", "h.i", "h.ge", "h.n", "h.de", "h.ki", "h.ru", "h.yo", "h.u", "h.ni", "p.ten", "h.ro", "h.gu", "h.wo", "h.no", "h.ko", "h.si", "h.ma", "h.su", "p.maru">>,
         <<"W", "e", "'", "l", "l", " ", "k", "e", "e", "p", " ", "l", "o", "g", "s", " ", "s", "o", " ", "w", "e", " ", "c", "a", "n", " ", "r", "e", "p", "r", "o", "d", "u", "c", "e", " ", "{en}", ".">>>>
    >>

-----------------------------------------------------------------------------
(* Fixed strings of the synthesis engine.                                  *)

shimasu == <<"h.si", "h.ma", "h.su">>                    \* します
kudasai == <<"h.ku", "h.da", "h.sa", "h.i">>             \* ください
sasete_kudasai == <<"h.sa", "h.se", "h.te", "h.ku", "h.da", "h.sa", "h.i">>  \* させてください
desu == <<"h.de", "h.su">>                               \* です
ha == <<"h.ha">>                                         \* は
ka == <<"h.ka">>                                         \* か
nami == <<"p.nami">>                                     \* 〜
maru == <<"p.maru">>                                     \* 。
qfw == <<"p.qfw">>                                       \* ？
nen_no_tame == <<"k.5FF5", "h.no", "h.ta", "h.me">>      \* 念のため
tsuika_de == <<"k.8FFD", "k.52A0", "h.de">>              \* 追加で
yoroshii_deshouka ==                                     \* よろしいでしょうか
    <<"h.yo", "h.ro", "h.si", "h.i", "h.de", "h.si", "h.yo_small", "h.u", "h.ka">>
toiu_ninshiki_desu ==                                    \* という認識です
    <<"h.to", "h.i", "h.u", "k.8A8D", "k.8B58", "h.de", "h.su">>
kono_ten == <<"h.ko", "h.no", "k.70B9">>                 \* この点
kono_ten_hira == <<"h.ko", "h.no", "h.te", "h.n">>       \* このてん
arimasuka == <<"h.a", "h.ri", "h.ma", "h.su", "h.ka", "p.maru">>   \* ありますか。
meeting_phrases ==
    <<"m", "e", "e", "t", "i", "n", "g", "_", "p", "h", "r", "a", "s", "e", "s">>
evidence == <<"e", "v", "i", "d", "e", "n", "c", "e">>

\* the triple returned for a term containing よろしいでしょうか
placeholder_yoroshii ==
    [jp |-> <<"h.ko", "h.no", "k.5185", "k.5BB9", "h.de", "h.yo", "h.ro", "h.si", "h.i", "h.de", "h.si", "h.yo_small", "h.u", "h.ka", "p.maru">>,
     hira |-> <<"h.ko", "h.no", "h.na", "h.i", "h.yo", "h.u", "h.de", "h.yo", "h.ro", "h.si", "h.i", "h.de", "h.si", "h.yo_small", "h.u", "h.ka", "p.maru">>,
     en |-> <<"W", "o", "u", "l", "d", " ", "t", "h", "i", "s", " ", "b", "e", " ", "o", "k", "a", "y", "?">>]

\* the triple returned for a term containing という認識です
placeholder_ninshiki ==
    [jp |-> <<"h.ko", "h.no", "k.70B9", "h.ha", "h.so", "h.u", "h.i", "h.u", "k.8A8D", "k.8B58", "h.de", "h.su", "p.maru">>,
     hira |-> <<"h.ko", "h.no", "h.te", "h.n", "h.ha", "h.so", "h.u", "h.i", "h.u", "h.ni", "h.n", "h.si", "h.ki", "h.de", "h.su", "p.maru">>,
     en |-> <<"T", "h", "a", "t", "'", "s", " ", "m", "y", " ", "u", "n", "d", "e", "r", "s", "t", "a", "n", "d", "i", "n", "g", ".">>]

example_prefix == <<"E", "x", "a", "m", "p", "l", "e", ":", " ">>     \* "Example: "
stem_en ==                                         \* "Could you share the evidence?"
    <<"C", "o", "u", "l", "d", " ", "y", "o", "u", " ", "s", "h", "a", "r", "e", " ", "t", "h", "e", " ", "e", "v", "i", "d", "e", "n", "c", "e", "?">>

\* the seed suffix of each templated branch, as characters
suffix ==
    [b \in {"v1", "v2", "v3", "v4", "v5", "m1", "t1",
            "mperm", "kudasai", "suru", "nen", "m", "t"} |->
        CASE b = "v1" -> <<"|", "v", "1">>
          [] b = "v2" -> <<"|", "v", "2">>
          [] b = "v3" -> <<"|", "v", "3">>
          [] b = "v4" -> <<"|", "v", "4">>
          [] b = "v5" -> <<"|", "v", "5">>
          [] b = "m1" -> <<"|", "m", "1">>
          [] b = "t1" -> <<"|", "t", "1">>
          [] b = "mperm" -> <<"|", "m", "p", "e", "r", "m">>
          [] b = "kudasai" -> <<"|", "k", "u", "d", "a", "s", "a", "i">>
          [] b = "suru" -> <<"|", "s", "u", "r", "u">>
          [] b = "nen" -> <<"|", "n", "e", "n">>
          [] b = "m" -> <<"|", "m">>
          [] b = "t" -> <<"|", "t">>]

\* the catalog each branch selects from
frames2 ==
    [b \in {"v1", "v2", "v3", "v4", "v5", "m1", "t1"} |->
        CASE b = "v1" -> frames2_v1 [] b = "v2" -> frames2_v2 [] b = "v3" -> frames2_v3
          [] b = "v4" -> frames2_v4 [] b = "v5" -> frames2_v5 [] b = "m1" -> frames2_m1
          [] b = "t1" -> frames2_t1]

frames3 ==
    [b \in {"mperm", "kudasai", "suru", "nen", "m", "t"} |->
        CASE b = "mperm" -> frames3_mperm [] b = "kudasai" -> frames3_kudasai
          [] b = "suru" -> frames3_suru [] b = "nen" -> frames3_nen
          [] b = "m" -> frames3_m [] b = "t" -> frames3_t]

-----------------------------------------------------------------------------
(* The selection primitive and the reading aligner.                        *)

\* _pick_index(seed, n), given h = int.from_bytes(sha256(seed)[:4], "big"):
\* the digest is an input of the model, the reduction is the code's.
pick_index(h, n) == h % n

\* make_reading with sentence_jp.replace(term_jp, term_hira, 1)
make_reading_first_only(sentence_jp, term_jp, term_hira) ==
    IF contains(sentence_jp, term_jp)
    THEN LET i == CHOOSE k \in 1..(Len(sentence_jp) + 1) :
                    /\ StartsAt(sentence_jp, term_jp, k)
                    /\ \A j \in 1..(k - 1) : ~StartsAt(sentence_jp, term_jp, j)
         IN  SubSeq(sentence_jp, 1, i - 1) \o term_hira
                \o SubSeq(sentence_jp, i + Len(term_jp), Len(sentence_jp))
    ELSE <<>>

\* lines 87-90
make_reading(sentence_jp, term_jp, term_hira) ==
    IF contains(sentence_jp, term_jp)
    THEN replace(sentence_jp, term_jp, term_hira)
    ELSE <<>>

\* the seed without the gloss
seed_of_no_gloss(row) ==
    row.deck \o <<"|">> \o row.japanese \o <<"|">> \o row.hiragana \o <<"|">>

\* f"{row.deck}|{jp}|{hira}|{en}"
seed_of(row) ==
    row.deck \o <<"|">> \o row.japanese \o <<"|">> \o row.hiragana
             \o <<"|">> \o row.english

-----------------------------------------------------------------------------
(* make_example2.  The result carries, beside the triple (jp, hira, en),   *)
(* the branch that produced it, the seed and catalog size handed to        *)
(* _pick_index and the index it returned (empty, 0 and -1 in the branches  *)
(* that select nothing).                                                   *)

in_specials(jp) == \E k \in DOMAIN specials : specials[k][1] = jp

special_of(jp) ==
    LET k == CHOOSE k \in DOMAIN specials : specials[k][1] = jp
    IN [jp |-> specials[k][2], hira |-> specials[k][3], en |-> specials[k][4]]

\* branch2 with the copula form (です) tested before the question form
branch2_desu_first(row) ==
    LET jp == row.japanese
        en == row.english
        is_meeting == endswith(row.deck, meeting_phrases)
    IN  IF in_specials(jp) THEN "special"
        ELSE IF contains(jp, nami) THEN "placeholder"
        ELSE IF endswith(jp, ha) /\ (contains(en, <<"?">>) \/ contains(lower(en), evidence))
             THEN "stem"
        ELSE IF endswith(jp, shimasu) THEN "v1"
        ELSE IF endswith(jp, kudasai) THEN "v2"
        ELSE IF is_meeting /\ jp \in {nen_no_tame, tsuika_de} THEN "v3"
        ELSE IF endswith(jp, desu) THEN "v5"
        ELSE IF endswith(jp, ka) \/ endswith(strip(en), <<"?">>) THEN "v4"
        ELSE IF is_meeting THEN "m1"
        ELSE "t1"

\* the chain of guards of make_example2, in the order the code tests them
branch2(row) ==
    LET jp == row.japanese
        en == row.english
        is_meeting == endswith(row.deck, meeting_phrases)
    IN  IF in_specials(jp) THEN "special"
        ELSE IF contains(jp, nami) THEN "placeholder"
        ELSE IF endswith(jp, ha) /\ (contains(en, <<"?">>) \/ contains(lower(en), evidence))
             THEN "stem"
        ELSE IF endswith(jp, shimasu) THEN "v1"
        ELSE IF endswith(jp, kudasai) THEN "v2"
        ELSE IF is_meeting /\ jp \in {nen_no_tame, tsuika_de} THEN "v3"
        ELSE IF endswith(jp, ka) \/ endswith(strip(en), <<"?">>) THEN "v4"
        ELSE IF endswith(jp, desu) THEN "v5"
        ELSE IF is_meeting THEN "m1"
        ELSE "t1"

\* question_jp with the post-processing left out
question_jp_unchanged(ex_jp) == ex_jp

\* lines 209-210: make the Japanese sentence end as a question
question_jp(ex_jp) ==
    IF ~endswith(ex_jp, ka) /\ ~endswith(ex_jp, qfw)
    THEN rstrip(ex_jp, {"p.maru"}) \o qfw
    ELSE ex_jp

\* lines 213-214: make the English sentence end in "?"
question_en(ex_en) ==
    IF ~endswith(ex_en, <<"?">>) THEN ex_en \o <<"?">> ELSE ex_en

\* the gloss as each branch of make_example2 hands it to the English template
gloss2(b, en) ==
    IF b \in {"v1", "v2", "v3"} THEN rstrip(strip(en), {"."})
    ELSE IF b = "v4" THEN rstrip(rstrip(en, {"?"}), {"."})
    ELSE en

make_example2(row, h) ==
    LET jp == row.japanese
        hira == row.hiragana
        en == row.english
        b == branch2(row)
        fixed(t) == [branch |-> b, seed |-> <<>>, n |-> 0, index |-> -1,
                     jp |-> t.jp, hira |-> t.hira, en |-> t.en]
    IN  IF b = "special" THEN fixed(special_of(jp))
        ELSE IF b = "placeholder" THEN
            IF contains(jp, yoroshii_deshouka) THEN fixed(placeholder_yoroshii)
            ELSE IF contains(jp, toiu_ninshiki_desu) THEN fixed(placeholder_ninshiki)
            ELSE fixed([jp |-> replace(jp, nami, kono_ten) \o maru,
                        hira |-> replace(hira, nami, kono_ten_hira) \o maru,
                        en |-> example_prefix \o en])
        ELSE IF b = "stem" THEN
            fixed([jp |-> jp \o arimasuka, hira |-> hira \o arimasuka, en |-> stem_en])
        ELSE
            LET frames == frames2[b]
                index == pick_index(h, Len(frames))
                tmpl == frames[index + 1]
                ex_jp0 == format(tmpl[1], "{t}", jp)
                ex_jp == IF b = "v4" THEN question_jp(ex_jp0) ELSE ex_jp0
                ex_en0 == format(tmpl[2], "{en}", gloss2(b, en))
                ex_en == IF b = "v4" THEN question_en(ex_en0) ELSE ex_en0
            IN [branch |-> b, seed |-> seed_of(row) \o suffix[b], n |-> Len(frames),
                index |-> index, jp |-> ex_jp, hira |-> make_reading(ex_jp, jp, hira), en |-> ex_en]

-----------------------------------------------------------------------------
(* make_example3.                                                          *)

\* branch3 without the dedicated case for 念のため
branch3_no_nen(row) ==
    LET jp == row.japanese
        is_meeting == endswith(row.deck, meeting_phrases)
    IN  IF is_meeting /\ contains(jp, sasete_kudasai) THEN "mperm"
        ELSE IF endswith(jp, kudasai) THEN "kudasai"
        ELSE IF endswith(jp, shimasu) THEN "suru"
        ELSE IF is_meeting THEN "m"
        ELSE "t"

\* the chain of guards of make_example3, in the order the code tests them
branch3(row) ==
    LET jp == row.japanese
        is_meeting == endswith(row.deck, meeting_phrases)
    IN  IF is_meeting /\ contains(jp, sasete_kudasai) THEN "mperm"
        ELSE IF endswith(jp, kudasai) THEN "kudasai"
        ELSE IF endswith(jp, shimasu) THEN "suru"
        ELSE IF is_meeting THEN (IF jp = nen_no_tame THEN "nen" ELSE "m")
        ELSE "t"

make_example3(row, h) ==
    LET jp == row.japanese
        hira == row.hiragana
        en == row.english
        b == branch3(row)
        frames == frames3[b]
        index == pick_index(h, Len(frames))
        tmpl == frames[index + 1]
        ex_jp == format(tmpl[1], "{t}", jp)
    IN [branch |-> b, seed |-> seed_of(row) \o <<"|", "e", "x", "3">> \o suffix[b],
        n |-> Len(frames), index |-> index,
        jp |-> ex_jp, hira |-> make_reading(ex_jp, jp, hira),
        en |-> format(tmpl[2], "{en}", rstrip(strip(en), {"."}))]

-----------------------------------------------------------------------------
(* llm_expand_examples.py: the validation predicate.                       *)

\* the hiragana letters (U+3040-309F) that occur in this model
Hiragana ==
    {"h.a", "h.ba", "h.be", "h.bu", "h.da", "h.de", "h.do", "h.e", "h.ga",
     "h.ge", "h.gi", "h.go", "h.gu", "h.ha", "h.he", "h.hu", "h.i", "h.ka",
     "h.ke", "h.ki", "h.ko", "h.ku", "h.ma", "h.me", "h.mi", "h.mo", "h.mu",
     "h.n", "h.na", "h.ne", "h.ni", "h.no", "h.o", "h.pu", "h.ra", "h.re",
     "h.ri", "h.ro", "h.ru", "h.sa", "h.se", "h.si", "h.so", "h.su", "h.ta",
     "h.te", "h.ti", "h.to", "h.tu", "h.tu_small", "h.u", "h.wa", "h.wo",
     "h.yo", "h.yo_small", "h.yu", "h.yu_small", "h.zi", "h.zu"}

AsciiLetters ==
    {"a", "b", "c", "d", "e", "f", "g", "h", "i", "j", "k", "l", "m", "n", "o",
     "p", "q", "r", "s", "t", "u", "v", "w", "x", "y", "z"} \cup DOMAIN UpperToLower

AsciiDigits == {"0", "1", "2", "3", "4", "5", "6", "7", "8", "9"}

\* the character class of HIRAGANA_KATAKANA_RE: kana, U+3000-303F (。、〜),
\* space, digits, ASCII letters, and 。、！？ー・「」『』（）()…:;,.!?/
\* (kanji, "|", "_", "'" and — are outside it)
HiraganaKatakanaClass ==
    Hiragana \cup {"p.maru", "p.ten", "p.nami", "p.qfw", "p.choon"}
        \cup {" "} \cup AsciiDigits \cup AsciiLetters
        \cup {"(", ")", ":", ";", ",", ".", "!", "?", "/"}

is_hiraganaish(text) ==
    LET t == strip(text)
    IN  /\ t # <<>>
        /\ \A k \in 1..Len(t) : t[k] \in HiraganaKatakanaClass

MaxJpLen == 140
MaxEnLen == 200

\* validate_example2 without the length of the Japanese sentence
validate_example2_no_jp_len(example, japanese) ==
    IF ~contains(example.jp, japanese) THEN "term"
    ELSE IF ~is_hiraganaish(example.hira) THEN "hiragana"
    ELSE IF Len(example.en) > MaxEnLen THEN "en_long"
    ELSE "None"

\* validate_example2(example, japanese=...): the error, or "None"
validate_example2(example, japanese) ==
    IF ~contains(example.jp, japanese) THEN "term"
    ELSE IF ~is_hiraganaish(example.hira) THEN "hiragana"
    ELSE IF Len(example.jp) > MaxJpLen THEN "jp_long"
    ELSE IF Len(example.en) > MaxEnLen THEN "en_long"
    ELSE "None"

-----------------------------------------------------------------------------
(* The records the engine is applied to.                                   *)

MaxStem == 1
MaxGloss == 1
MaxDigest == 9

SeqsUpTo(S, n) == UNION {[1..k -> S] : k \in 0..n}

\* 確, 〜
StemChars == {"k.78BA", "p.nami"}

Endings == {<<>>, shimasu, kudasai, sasete_kudasai, ha, ka, desu, maru, qfw}

FixedTerms ==
    {specials[k][1] : k \in DOMAIN specials}
        \cup {nen_no_tame, tsuika_de, nami \o <<"h.de">> \o yoroshii_deshouka,
              nami \o toiu_ninshiki_desu}

Terms == {s \o e : s \in SeqsUpTo(StemChars, MaxStem), e \in Endings} \cup FixedTerms

\* empty, a phonetic reading with the marker (〜かく), one with a kanji (確)
Readings == {<<>>, <<"p.nami", "h.ka", "h.ku">>, <<"k.78BA">>}

Glosses ==
    SeqsUpTo({"a", "?", "."}, MaxGloss)
        \cup {<<"a", "?">>, <<"a", ".">>, <<"a", ".", "?">>, <<"a", " ", "b">>,
              evidence, <<"E", "v", "i", "d", "e", "n", "c", "e", ".">>}

Decks ==
    {<<"0", "3", "_", "t", "e", "c", "h">>,
     <<"0", "5", "_">> \o meeting_phrases,
     meeting_phrases \o <<"_", "2">>}

\* Row, as read_rows builds it (every field stripped); front, back and the
\* embedded example are not read by the engine
Rows ==
    [deck : Decks, japanese : Terms, hiragana : Readings, english : Glosses]

Digests == 0..MaxDigest

NoExample ==
    [branch |-> "none", seed |-> <<>>, n |-> 0, index |-> -1, jp |-> <<>>, hira |-> <<>>, en |-> <<>>]

-----------------------------------------------------------------------------
VARIABLES
    \* one call of each synthesis function
    row,              \* the record the functions are applied to
    ex2,              \* what make_example2 returned for it
    ex3,              \* what make_example3 returned for it
    pc,
    \* build_vocab_master.main
    manual_file,      \* the rows of data/manual_examples.csv
    manual_ex1_file,  \* the rows of data/manual_example1.csv
    all_rows,         \* the rows read from the deck files
    manual,           \* load_manual_examples' dict
    manual_ex1,       \* load_manual_example1's dict
    bi,               \* the row the loop is at (1-based)
    out,              \* the rows written to data/vocab_master.csv
    bpc,
    \* rebuild_vocab_master.main and llm_expand_examples.main
    rargs,            \* rebuild's --with-llm, --llm-limit, --llm-deck, --force
    args,             \* llm's --force, --limit, --deck
    api_key,          \* the environment's OPENAI_API_KEY
    master,           \* the rows of data/vocab_master.csv
    cache_file,       \* the lines of .cache/example2_cache.jsonl
    written,          \* the files this invocation has written
    rows,             \* llm main's rows
    cache,            \* llm main's cache dict
    li,               \* the row llm main's loop is at (1-based)
    attempt,
    generated,
    last_err,
    llm_ex2,          \* the Example2 generate_example2 returned last
    lpc,
    rpc

synth_vars == <<row, ex2, ex3, pc>>
build_vars == <<manual_file, manual_ex1_file, all_rows, manual, manual_ex1, bi, out, bpc>>
llm_vars == <<rargs, args, api_key, master, cache_file, written, rows, cache, li,
              attempt, generated, last_err, llm_ex2, lpc, rpc>>
vars == <<synth_vars, build_vars, llm_vars>>

NoRow == [deck |-> <<>>, japanese |-> <<>>, hiragana |-> <<>>, english |-> <<>>]

EmptyDict == [k \in {} |-> <<>>]

SynthIdle ==
    /\ row = NoRow
    /\ ex2 = NoExample
    /\ ex3 = NoExample
    /\ pc = "idle"

BuildIdle ==
    /\ manual_file = <<>>
    /\ manual_ex1_file = <<>>
    /\ all_rows = <<>>
    /\ manual = EmptyDict
    /\ manual_ex1 = EmptyDict
    /\ bi = 0
    /\ out = <<>>
    /\ bpc = "idle"

NoArgs == [force |-> FALSE, limit |-> 0, deck |-> <<>>]
NoRargs == [with_llm |-> FALSE, llm_limit |-> 0, llm_deck |-> <<>>, force |-> FALSE]
NoExample2 == [jp |-> <<>>, hira |-> <<>>, en |-> <<>>]

LlmIdle ==
    /\ rargs = NoRargs
    /\ args = NoArgs
    /\ api_key = <<>>
    /\ master = <<>>
    /\ cache_file = <<>>
    /\ written = {}
    /\ rows = <<>>
    /\ cache = EmptyDict
    /\ li = 0
    /\ attempt = 0
    /\ generated = 0
    /\ last_err = "None"
    /\ llm_ex2 = NoExample2
    /\ lpc = "idle"
    /\ rpc = "idle"

-----------------------------------------------------------------------------
(* The synthesis functions, applied to one record.                         *)

Init ==
    /\ row \in Rows
    /\ ex2 = NoExample
    /\ ex3 = NoExample
    /\ pc = "start"
    /\ BuildIdle
    /\ LlmIdle

\* ex2_jp, ex2_hira, ex2_en = make_example2(r)
MakeExample2 ==
    /\ pc = "start"
    /\ \E h \in Digests : ex2' = make_example2(row, h)
    /\ pc' = "ex2"
    /\ UNCHANGED <<row, ex3, build_vars, llm_vars>>

\* ex3_jp, ex3_hira, ex3_en = make_example3(r)
MakeExample3 ==
    /\ pc = "ex2"
    /\ \E h \in Digests : ex3' = make_example3(row, h)
    /\ pc' = "done"
    /\ UNCHANGED <<row, ex2, build_vars, llm_vars>>

Next == MakeExample2 \/ MakeExample3

Spec == Init /\ [][Next]_vars

-----------------------------------------------------------------------------
(* build_vocab_master.main: the override files and the merge.              *)

\* override texts: a sentence with the term 確します, its reading, its gloss
OverrideJP == <<"h.i", "h.ma">> \o <<"k.78BA">> \o shimasu \o maru
OverrideHira == <<"h.i", "h.ma", "h.ka", "h.ku">> \o shimasu \o maru
OverrideEN == <<"O", "k", ".">>

NoCells == [jp |-> <<>>, hira |-> <<>>, en |-> <<>>]
BlankCells == [jp |-> <<" ">>, hira |-> OverrideHira, en |-> OverrideEN]

\* the override for one slot, as the three cells of a file row: complete,
\* complete without reading, Japanese only, Japanese blank, or nothing
SlotCells ==
    {[jp |-> OverrideJP, hira |-> OverrideHira, en |-> OverrideEN],
     [jp |-> OverrideJP, hira |-> <<>>, en |-> OverrideEN],
     [jp |-> OverrideJP, hira |-> OverrideHira, en |-> <<>>],
     BlankCells,
     NoCells}

\* the records of the deck files: a します verb of a tech deck with an embedded
\* example, a meeting phrase without one
TechRow ==
    [deck |-> <<"0", "3", "_", "t", "e", "c", "h">>, front |-> <<"k.78BA">>, back |-> <<"a">>,
     japanese |-> <<"k.78BA">> \o shimasu, hiragana |-> <<"h.ka", "h.ku">> \o shimasu,
     english |-> <<"a">>,
     example_jp |-> <<"k.78BA">> \o shimasu \o maru,
     example_hiragana |-> <<"h.ka", "h.ku">> \o shimasu \o maru,
     example_en |-> <<"a", ".">>]

MeetingRow ==
    [deck |-> <<"0", "5", "_">> \o meeting_phrases, front |-> nen_no_tame, back |-> <<"b">>,
     japanese |-> nen_no_tame, hiragana |-> <<"h.ne", "h.n", "h.no", "h.ta", "h.me">>,
     english |-> <<"b">>,
     example_jp |-> <<>>, example_hiragana |-> <<>>, example_en |-> <<>>]

BuildRows == {TechRow, MeetingRow}

\* the (Deck, Japanese) cells of a row of data/manual_examples.csv
FileKeys == {<<r.deck, r.japanese>> : r \in BuildRows}

\* the (Deck, Japanese) cells of a row of data/manual_example1.csv: the key of
\* a record, or a row without deck
Ex1FileKeys == {<<TechRow.deck, TechRow.japanese>>, <<<<>>, TechRow.japanese>>}

\* a row of data/manual_examples.csv; Example_* are the columns slot 1 falls
\* back to when Example1_* are empty
ManualFileRows ==
    {[Deck |-> k[1], Japanese |-> k[2],
      Example1 |-> s1, Example |-> NoCells, Example2 |-> s2, Example3 |-> s3] :
        k \in FileKeys, s1 \in SlotCells,
        s2 \in SlotCells \ {BlankCells}, s3 \in SlotCells \ {BlankCells}}
    \cup
    {[Deck |-> k[1], Japanese |-> k[2],
      Example1 |-> NoCells, Example |-> s1, Example2 |-> NoCells, Example3 |-> NoCells] :
        k \in FileKeys, s1 \in SlotCells \ {NoCells}}
    \cup
    {[Deck |-> k[1], Japanese |-> k[2],
      Example1 |-> [jp |-> OverrideJP, hira |-> <<>>, en |-> <<>>],
      Example |-> [jp |-> <<>>, hira |-> OverrideHira, en |-> OverrideEN],
      Example2 |-> NoCells, Example3 |-> NoCells] : k \in FileKeys}

\* a row of data/manual_example1.csv
ManualEx1FileRows ==
    {[Deck |-> k[1], Japanese |-> k[2], Example |-> s] :
        k \in Ex1FileKeys, s \in SlotCells \ {NoCells}}

\* a or b, on str: a when it is non-empty
or(a, b) == IF a # <<>> THEN a ELSE b

put(dict, key, value) ==
    [k \in DOMAIN dict \cup {key} |-> IF k = key THEN value ELSE dict[k]]

RECURSIVE load_manual_examples_from(_, _, _)
load_manual_examples_from(file, i, outd) ==
    IF i > Len(file) THEN outd
    ELSE LET r == file[i]
             deck == strip(r.Deck)
             japanese == strip(r.Japanese)
         IN  IF deck = <<>> \/ japanese = <<>>
             THEN load_manual_examples_from(file, i + 1, outd)
             ELSE load_manual_examples_from(file, i + 1,
                    put(outd, <<deck, japanese>>,
                        [example1_jp |-> strip(or(r.Example1.jp, r.Example.jp)),
                         example1_hiragana |-> strip(or(r.Example1.hira, r.Example.hira)),
                         example1_en |-> strip(or(r.Example1.en, r.Example.en)),
                         example2_jp |-> strip(r.Example2.jp),
                         example2_hiragana |-> strip(r.Example2.hira),
                         example2_en |-> strip(r.Example2.en),
                         example3_jp |-> strip(r.Example3.jp),
                         example3_hiragana |-> strip(r.Example3.hira),
                         example3_en |-> strip(r.Example3.en)]))

load_manual_examples(file) == load_manual_examples_from(file, 1, EmptyDict)

RECURSIVE load_manual_example1_from(_, _, _)
load_manual_example1_from(file, i, outd) ==
    IF i > Len(file) THEN outd
    ELSE LET r == file[i]
             deck == strip(r.Deck)
             japanese == strip(r.Japanese)
             ex_jp == strip(r.Example.jp)
             ex_hira == strip(r.Example.hira)
             ex_en == strip(r.Example.en)
         IN  IF deck = <<>> \/ japanese = <<>>
             THEN load_manual_example1_from(file, i + 1, outd)
             ELSE IF ex_jp = <<>> \/ ex_en = <<>>
             THEN load_manual_example1_from(file, i + 1, outd)
             ELSE load_manual_example1_from(file, i + 1,
                    put(outd, <<deck, japanese>>, <<ex_jp, ex_hira, ex_en>>))

load_manual_example1(file) == load_manual_example1_from(file, 1, EmptyDict)

\* lines 392-403: example 1 of record r
resolve_ex1(r, man, man1) ==
    LET key == <<r.deck, r.japanese>>
    IN  IF key \in DOMAIN man1
        THEN [jp |-> man1[key][1],
              hira |-> or(man1[key][2], make_reading(man1[key][1], r.japanese, r.hiragana)),
              en |-> man1[key][3]]
        ELSE IF key \in DOMAIN man /\ man[key].example1_jp # <<>> /\ man[key].example1_en # <<>>
        THEN [jp |-> man[key].example1_jp,
              hira |-> or(man[key].example1_hiragana,
                          make_reading(man[key].example1_jp, r.japanese, r.hiragana)),
              en |-> man[key].example1_en]
        ELSE [jp |-> r.example_jp, hira |-> r.example_hiragana, en |-> r.example_en]

\* resolve_ex2 that takes the override as soon as its Japanese is there
resolve_ex2_jp_only(r, man, h) ==
    LET key == <<r.deck, r.japanese>>
    IN  IF key \in DOMAIN man /\ man[key].example2_jp # <<>>
        THEN [jp |-> man[key].example2_jp,
              hira |-> or(man[key].example2_hiragana,
                          make_reading(man[key].example2_jp, r.japanese, r.hiragana)),
              en |-> man[key].example2_en]
        ELSE LET e == make_example2(r, h) IN [jp |-> e.jp, hira |-> e.hira, en |-> e.en]

\* lines 405-410: example 2 of record r
resolve_ex2(r, man, h) ==
    LET key == <<r.deck, r.japanese>>
    IN  IF key \in DOMAIN man /\ man[key].example2_jp # <<>> /\ man[key].example2_en # <<>>
        THEN [jp |-> man[key].example2_jp,
              hira |-> or(man[key].example2_hiragana,
                          make_reading(man[key].example2_jp, r.japanese, r.hiragana)),
              en |-> man[key].example2_en]
        ELSE LET e == make_example2(r, h) IN [jp |-> e.jp, hira |-> e.hira, en |-> e.en]

\* lines 412-417: example 3 of record r
resolve_ex3(r, man, h) ==
    LET key == <<r.deck, r.japanese>>
    IN  IF key \in DOMAIN man /\ man[key].example3_jp # <<>> /\ man[key].example3_en # <<>>
        THEN [jp |-> man[key].example3_jp,
              hira |-> or(man[key].example3_hiragana,
                          make_reading(man[key].example3_jp, r.japanese, r.hiragana)),
              en |-> man[key].example3_en]
        ELSE LET e == make_example3(r, h) IN [jp |-> e.jp, hira |-> e.hira, en |-> e.en]

\* lines 419-439: the row written for record r
written_row(r, ex1, e2, e3) ==
    [Deck |-> r.deck, Front |-> r.front, Back |-> r.back, Japanese |-> r.japanese,
     Hiragana |-> r.hiragana, English |-> r.english,
     Example_JP |-> ex1.jp, Example_Hiragana |-> ex1.hira, Example_EN |-> ex1.en,
     Example2_JP |-> e2.jp, Example2_Hiragana |-> e2.hira, Example2_EN |-> e2.en,
     Example3_JP |-> e3.jp, Example3_Hiragana |-> e3.hira, Example3_EN |-> e3.en,
     Tags |-> r.deck, Notes |-> <<>>]

InitBuild ==
    /\ SynthIdle
    /\ LlmIdle
    /\ manual_file \in {<<>>} \cup {<<f>> : f \in ManualFileRows}
    /\ manual_ex1_file \in {<<>>} \cup {<<f>> : f \in ManualEx1FileRows}
    /\ all_rows \in {<<>>} \cup {<<r>> : r \in BuildRows}
    /\ manual = EmptyDict
    /\ manual_ex1 = EmptyDict
    /\ bi = 0
    /\ out = <<>>
    /\ bpc = "start"

\* lines 355-388: load the override files, read the deck files, open the
\* output; the loop over all_rows is entered unless there is no row
BuildLoad ==
    /\ bpc = "start"
    /\ manual' = load_manual_examples(manual_file)
    /\ manual_ex1' = load_manual_example1(manual_ex1_file)
    /\ bi' = 1
    /\ bpc' = IF all_rows = <<>> THEN "done" ELSE "rows"
    /\ UNCHANGED <<manual_file, manual_ex1_file, all_rows, out, synth_vars, llm_vars>>

\* lines 389-439: one iteration of the loop over all_rows (the digests of the
\* two seeds are read only where the slot is synthesized)
BuildRow ==
    /\ bpc = "rows"
    /\ bi <= Len(all_rows)
    /\ LET r == all_rows[bi]
           ex1 == resolve_ex1(r, manual, manual_ex1)
       IN \E e2 \in {resolve_ex2(r, manual, h) : h \in Digests},
             e3 \in {resolve_ex3(r, manual, h) : h \in Digests} :
               out' = Append(out, written_row(r, ex1, e2, e3))
    /\ bi' = bi + 1
    /\ bpc' = IF bi = Len(all_rows) THEN "done" ELSE "rows"
    /\ UNCHANGED <<manual_file, manual_ex1_file, all_rows, manual, manual_ex1, synth_vars, llm_vars>>

NextBuild == BuildLoad \/ BuildRow

SpecBuild == InitBuild /\ [][NextBuild]_vars

-----------------------------------------------------------------------------
(* llm_expand_examples.main, alone or run by rebuild_vocab_master.main.    *)
(* A file of rows is the sequence of its rows, a row the record of its     *)
(* cells; the cache file is the sequence of its lines, a line that does    *)
(* not parse to a key and an example2 object being marked invalid.         *)

MaxLimit == 1
MaxAttempts == 3

MasterPath == "data/vocab_master.csv"
CachePath == ".cache/example2_cache.jsonl"

Pad(c, n) == [k \in 1..n |-> c]

Example2Cells(jp, hira, en) ==
    [Example2_JP |-> jp, Example2_Hiragana |-> hira, Example2_EN |-> en]

\* stable_key: the digest is modelled by the string it is taken of
stable_key(deck, japanese, hiragana, english) ==
    deck \o <<"|">> \o japanese \o <<"|">> \o hiragana \o <<"|">> \o english

\* a row of data/vocab_master.csv
master_row(r, front, japanese, e2) ==
    [written_row(r, [jp |-> r.example_jp, hira |-> r.example_hiragana, en |-> r.example_en],
                 e2, NoExample2)
        EXCEPT !.Front = front, !.Japanese = japanese]

GoodHira == <<"h.ka", "h.ku">> \o shimasu \o maru

\* 確します without Example2
RowA == master_row(TechRow, TechRow.front, TechRow.japanese, NoExample2)
\* 念のため with a complete Example2
RowB ==
    master_row(MeetingRow, MeetingRow.front, MeetingRow.japanese,
               [jp |-> nen_no_tame \o maru, hira |-> <<"h.ne", "h.n">>, en |-> <<"b", ".">>])
\* no Japanese cell, the term in Front; Example2 without its reading
RowC ==
    master_row(MeetingRow, MeetingRow.front, <<>>,
               [jp |-> nen_no_tame \o maru, hira |-> <<>>, en |-> <<"b", ".">>])
\* no English cell
RowD == master_row([TechRow EXCEPT !.english = <<>>], TechRow.front, TechRow.japanese, NoExample2)

\* 確します with a complete Example2
RowE ==
    master_row(TechRow, TechRow.front, TechRow.japanese,
               [jp |-> TechRow.japanese \o maru, hira |-> GoodHira, en |-> <<"e">>])

MasterFiles ==
    {<<>>, <<RowA>>, <<RowA, RowA>>, <<RowA, RowC>>, <<RowB, RowA>>, <<RowD, RowC>>,
     <<RowE>>}

KeyA == stable_key(TechRow.deck, TechRow.japanese, TechRow.hiragana, TechRow.english)

CachedA == Example2Cells(TechRow.japanese \o maru, GoodHira, <<"c">>)

CacheLine(key, example2) == [valid |-> TRUE, key |-> key, example2 |-> example2]
BadLine == [valid |-> FALSE, key |-> <<>>, example2 |-> Example2Cells(<<>>, <<>>, <<>>)]

CacheFiles == {<<>>, <<BadLine, CacheLine(KeyA, CachedA)>>}

ApiKeys == {<<>>, <<" ">>, <<"s", "k">>}

DeckArgs == {<<>>, TechRow.deck}

LlmArgs == [force : BOOLEAN, limit : 0..MaxLimit, deck : DeckArgs]

RebuildArgs ==
    [with_llm : BOOLEAN, llm_limit : 0..MaxLimit, llm_deck : {<<>>}, force : BOOLEAN]

\* lines 50-71
RECURSIVE load_jsonl_cache_from(_, _, _)
load_jsonl_cache_from(file, i, c) ==
    IF i > Len(file) THEN c
    ELSE load_jsonl_cache_from(file, i + 1,
            IF file[i].valid THEN put(c, file[i].key, file[i].example2) ELSE c)

load_jsonl_cache(file) == load_jsonl_cache_from(file, 1, EmptyDict)

\* lines 74-77
append_jsonl(file, key, example2) == Append(file, CacheLine(key, example2))

\* what the remote may answer for a term: an HTTP error, or a JSON object
\* with jp, hiragana, en
Answer(jp, hiragana, en) == [http_error |-> FALSE, jp |-> jp, hiragana |-> hiragana, en |-> en]

RemoteOutcomes(term) ==
    {[http_error |-> TRUE, jp |-> <<>>, hiragana |-> <<>>, en |-> <<>>],
     Answer(<<" ">> \o term \o maru, GoodHira, <<"o", "k", " ">>),
     Answer(term \o Pad("h.a", MaxJpLen - Len(term)), GoodHira, Pad("a", MaxEnLen)),
     Answer(<<"h.a">>, GoodHira, <<"o", "k">>),
     Answer(term \o maru, <<"k.78BA">> \o shimasu, <<"o", "k">>),
     Answer(term \o Pad("h.a", MaxJpLen + 1 - Len(term)), GoodHira, <<"o", "k">>),
     Answer(term \o maru, GoodHira, Pad("a", MaxEnLen + 1)),
     Answer(term \o maru, <<" ">>, <<"o", "k">>)}

\* lines 173-195: raises on an HTTP error and on an empty field
generate_example2(answer) ==
    LET jp == strip(answer.jp)
        hira_out == strip(answer.hiragana)
        en_out == strip(answer.en)
    IN  [raised |-> answer.http_error \/ jp = <<>> \/ hira_out = <<>> \/ en_out = <<>>,
         ex |-> [jp |-> jp, hira |-> hira_out, en |-> en_out]]

\* lines 221-224
should_generate(r, force) ==
    \/ force
    \/ ~(/\ strip(r.Example2_JP) # <<>>
         /\ strip(r.Example2_Hiragana) # <<>>
         /\ strip(r.Example2_EN) # <<>>)

\* row.update(cached)
update(r, cells) ==
    [r EXCEPT !.Example2_JP = cells.Example2_JP,
              !.Example2_Hiragana = cells.Example2_Hiragana,
              !.Example2_EN = cells.Example2_EN]

\* lines 265-271
deck_of(r) == strip(r.Deck)
japanese_of(r) == strip(or(r.Japanese, r.Front))
hiragana_of(r) == strip(r.Hiragana)
english_of(r) == strip(r.English)
key_of(r) == stable_key(deck_of(r), japanese_of(r), hiragana_of(r), english_of(r))

InitLLM ==
    /\ SynthIdle
    /\ manual_file = <<>>
    /\ manual_ex1_file = <<>>
    /\ manual = EmptyDict
    /\ manual_ex1 = EmptyDict
    /\ bi = 0
    /\ out = <<>>
    /\ bpc = "idle"
    /\ api_key \in ApiKeys
    /\ cache_file \in CacheFiles
    /\ written = {}
    /\ rows = <<>>
    /\ cache = EmptyDict
    /\ li = 0
    /\ attempt = 0
    /\ generated = 0
    /\ last_err = "None"
    /\ llm_ex2 = NoExample2
    /\ \/ /\ rpc = "idle"
          /\ lpc = "start"
          /\ rargs = NoRargs
          /\ args \in LlmArgs
          /\ master \in MasterFiles
          /\ all_rows = <<>>
       \/ /\ rpc = "start"
          /\ lpc = "idle"
          /\ rargs \in RebuildArgs
          /\ args = NoArgs
          /\ master = <<>>
          /\ all_rows \in {<<>>, <<TechRow>>}

\* rebuild line 21: tools/build_vocab_master.py is started
RebuildRunBuild ==
    /\ rpc = "start"
    /\ rpc' = "build"
    /\ bpc' = "start"
    /\ UNCHANGED <<synth_vars, manual_file, manual_ex1_file, all_rows, manual, manual_ex1,
                   bi, out, rargs, args, api_key, master, cache_file, written, rows, cache,
                   li, attempt, generated, last_err, llm_ex2, lpc>>

\* rebuild lines 21-44: the build has returned, data/vocab_master.csv is
\* written; then --with-llm is looked at, then OPENAI_API_KEY, then
\* tools/llm_expand_examples.py is started
RebuildAfterBuild ==
    /\ rpc = "build"
    /\ bpc = "done"
    /\ master' = out
    /\ written' = written \cup {MasterPath}
    /\ IF ~rargs.with_llm
       THEN rpc' = "done" /\ UNCHANGED <<lpc, args>>
       ELSE IF strip(api_key) = <<>>
       THEN rpc' = "error" /\ UNCHANGED <<lpc, args>>
       ELSE /\ rpc' = "llm"
            /\ lpc' = "start"
            /\ args' = [force |-> rargs.force, limit |-> rargs.llm_limit,
                        deck |-> rargs.llm_deck]
    /\ UNCHANGED <<synth_vars, build_vars, rargs, api_key, cache_file, rows, cache, li,
                   attempt, generated, last_err, llm_ex2>>

\* rebuild lines 44-45: the llm run has returned
RebuildReturn ==
    /\ rpc = "llm"
    /\ lpc \in {"done", "error"}
    /\ rpc' = IF lpc = "done" THEN "done" ELSE "error"
    /\ UNCHANGED <<synth_vars, build_vars, rargs, args, api_key, master, cache_file, written,
                   rows, cache, li, attempt, generated, last_err, llm_ex2, lpc>>

\* llm lines 253-263
LlmStart ==
    /\ lpc = "start"
    /\ IF strip(api_key) = <<>>
       THEN /\ lpc' = "error"
            /\ UNCHANGED <<rows, cache, generated, li>>
       ELSE /\ rows' = master
            /\ cache' = load_jsonl_cache(cache_file)
            /\ generated' = 0
            /\ li' = 1
            /\ lpc' = IF master = <<>> THEN "write" ELSE "loop"
    /\ UNCHANGED <<synth_vars, build_vars, rargs, args, api_key, master, cache_file, written,
                   attempt, last_err, llm_ex2, rpc>>

\* LlmRow that never looks into the cache
LlmRow_no_cache ==
    /\ lpc = "loop"
    /\ li <= Len(rows)
    /\ LET r == rows[li]
           skip == \/ args.deck # <<>> /\ deck_of(r) # args.deck
                   \/ japanese_of(r) = <<>>
                   \/ english_of(r) = <<>>
                   \/ ~should_generate(r, args.force)
           hit == FALSE
       IN  /\ rows' = IF hit THEN [rows EXCEPT ![li] = update(r, cache[key_of(r)])] ELSE rows
           /\ IF skip \/ hit
              THEN /\ li' = li + 1
                   /\ lpc' = IF li = Len(rows) THEN "write" ELSE "loop"
                   /\ UNCHANGED <<attempt, last_err>>
              ELSE /\ attempt' = 1
                   /\ last_err' = "None"
                   /\ lpc' = "attempt"
                   /\ UNCHANGED li
    /\ UNCHANGED <<synth_vars, build_vars, rargs, args, api_key, master, cache_file, written,
                   cache, generated, llm_ex2, rpc>>

\* llm lines 264-288: one row up to the attempts (skipped, filled from the
\* cache, or to be generated)
LlmRow ==
    /\ lpc = "loop"
    /\ li <= Len(rows)
    /\ LET r == rows[li]
           skip == \/ args.deck # <<>> /\ deck_of(r) # args.deck
                   \/ japanese_of(r) = <<>>
                   \/ english_of(r) = <<>>
                   \/ ~should_generate(r, args.force)
           hit == ~skip /\ key_of(r) \in DOMAIN cache /\ ~args.force
       IN  /\ rows' = IF hit THEN [rows EXCEPT ![li] = update(r, cache[key_of(r)])] ELSE rows
           /\ IF skip \/ hit
              THEN /\ li' = li + 1
                   /\ lpc' = IF li = Len(rows) THEN "write" ELSE "loop"
                   /\ UNCHANGED <<attempt, last_err>>
              ELSE /\ attempt' = 1
                   /\ last_err' = "None"
                   /\ lpc' = "attempt"
                   /\ UNCHANGED li
    /\ UNCHANGED <<synth_vars, build_vars, rargs, args, api_key, master, cache_file, written,
                   cache, generated, llm_ex2, rpc>>

\* LlmAttempt where an exception does not use up an attempt
LlmAttempt_retry_on_exception ==
    /\ lpc = "attempt"
    /\ \E answer \in RemoteOutcomes(japanese_of(rows[li])) :
        LET r == rows[li]
            g == generate_example2(answer)
            err == IF g.raised THEN "exception" ELSE validate_example2(g.ex, japanese_of(r))
            ok == err = "None"
            cells == Example2Cells(g.ex.jp, g.ex.hira, g.ex.en)
            gen == IF ok THEN generated + 1 ELSE generated
            leave == ok \/ (attempt = MaxAttempts /\ ~g.raised)
            stop == args.limit # 0 /\ gen >= args.limit
        IN  /\ llm_ex2' = IF g.raised THEN llm_ex2 ELSE g.ex
            /\ last_err' = IF ok THEN last_err ELSE err
            /\ rows' = IF ok THEN [rows EXCEPT ![li] = update(r, cells)] ELSE rows
            /\ cache' = IF ok THEN put(cache, key_of(r), cells) ELSE cache
            /\ cache_file' = IF ok THEN append_jsonl(cache_file, key_of(r), cells)
                             ELSE cache_file
            /\ written' = IF ok THEN written \cup {CachePath} ELSE written
            /\ generated' = gen
            /\ attempt' = IF leave \/ g.raised THEN attempt ELSE attempt + 1
            /\ li' = IF leave THEN li + 1 ELSE li
            /\ lpc' = IF ~leave THEN "attempt"
                      ELSE IF stop \/ li = Len(rows) THEN "write" ELSE "loop"
    /\ UNCHANGED <<synth_vars, build_vars, rargs, args, api_key, master, rpc>>

\* LlmAttempt that leaves the loop one generation after the limit
LlmAttempt_limit_late ==
    /\ lpc = "attempt"
    /\ \E answer \in RemoteOutcomes(japanese_of(rows[li])) :
        LET r == rows[li]
            g == generate_example2(answer)
            err == IF g.raised THEN "exception" ELSE validate_example2(g.ex, japanese_of(r))
            ok == err = "None"
            cells == Example2Cells(g.ex.jp, g.ex.hira, g.ex.en)
            gen == IF ok THEN generated + 1 ELSE generated
            leave == ok \/ attempt = MaxAttempts
            stop == args.limit # 0 /\ gen > args.limit
        IN  /\ llm_ex2' = IF g.raised THEN llm_ex2 ELSE g.ex
            /\ last_err' = IF ok THEN last_err ELSE err
            /\ rows' = IF ok THEN [rows EXCEPT ![li] = update(r, cells)] ELSE rows
            /\ cache' = IF ok THEN put(cache, key_of(r), cells) ELSE cache
            /\ cache_file' = IF ok THEN append_jsonl(cache_file, key_of(r), cells)
                             ELSE cache_file
            /\ written' = IF ok THEN written \cup {CachePath} ELSE written
            /\ generated' = gen
            /\ attempt' = IF leave THEN attempt ELSE attempt + 1
            /\ li' = IF leave THEN li + 1 ELSE li
            /\ lpc' = IF ~leave THEN "attempt"
                      ELSE IF stop \/ li = Len(rows) THEN "write" ELSE "loop"
    /\ UNCHANGED <<synth_vars, build_vars, rargs, args, api_key, master, rpc>>

\* LlmAttempt that blanks the Example2 of a row it gives up
LlmAttempt_blank_on_failure ==
    /\ lpc = "attempt"
    /\ \E answer \in RemoteOutcomes(japanese_of(rows[li])) :
        LET r == rows[li]
            g == generate_example2(answer)
            err == IF g.raised THEN "exception" ELSE validate_example2(g.ex, japanese_of(r))
            ok == err = "None"
            cells == Example2Cells(g.ex.jp, g.ex.hira, g.ex.en)
            gen == IF ok THEN generated + 1 ELSE generated
            leave == ok \/ attempt = MaxAttempts
            stop == args.limit # 0 /\ gen >= args.limit
        IN  /\ llm_ex2' = IF g.raised THEN llm_ex2 ELSE g.ex
            /\ last_err' = IF ok THEN last_err ELSE err
            /\ rows' = IF ok THEN [rows EXCEPT ![li] = update(r, cells)]
                        ELSE IF leave
                        THEN [rows EXCEPT ![li] = update(r, Example2Cells(<<>>, <<>>, <<>>))]
                        ELSE rows
            /\ cache' = IF ok THEN put(cache, key_of(r), cells) ELSE cache
            /\ cache_file' = IF ok THEN append_jsonl(cache_file, key_of(r), cells)
                             ELSE cache_file
            /\ written' = IF ok THEN written \cup {CachePath} ELSE written
            /\ generated' = gen
            /\ attempt' = IF leave THEN attempt ELSE attempt + 1
            /\ li' = IF leave THEN li + 1 ELSE li
            /\ lpc' = IF ~leave THEN "attempt"
                      ELSE IF stop \/ li = Len(rows) THEN "write" ELSE "loop"
    /\ UNCHANGED <<synth_vars, build_vars, rargs, args, api_key, master, rpc>>

\* llm lines 289-340: one attempt; after the accepted one or the last one,
\* the end of the loop body (--limit)
LlmAttempt ==
    /\ lpc = "attempt"
    /\ \E answer \in RemoteOutcomes(japanese_of(rows[li])) :
        LET r == rows[li]
            g == generate_example2(answer)
            err == IF g.raised THEN "exception" ELSE validate_example2(g.ex, japanese_of(r))
            ok == err = "None"
            cells == Example2Cells(g.ex.jp, g.ex.hira, g.ex.en)
            gen == IF ok THEN generated + 1 ELSE generated
            leave == ok \/ attempt = MaxAttempts
            stop == args.limit # 0 /\ gen >= args.limit
        IN  /\ llm_ex2' = IF g.raised THEN llm_ex2 ELSE g.ex
            /\ last_err' = IF ok THEN last_err ELSE err
            /\ rows' = IF ok THEN [rows EXCEPT ![li] = update(r, cells)] ELSE rows
            /\ cache' = IF ok THEN put(cache, key_of(r), cells) ELSE cache
            /\ cache_file' = IF ok THEN append_jsonl(cache_file, key_of(r), cells)
                             ELSE cache_file
            /\ written' = IF ok THEN written \cup {CachePath} ELSE written
            /\ generated' = gen
            /\ attempt' = IF leave THEN attempt ELSE attempt + 1
            /\ li' = IF leave THEN li + 1 ELSE li
            /\ lpc' = IF ~leave THEN "attempt"
                      ELSE IF stop \/ li = Len(rows) THEN "write" ELSE "loop"
    /\ UNCHANGED <<synth_vars, build_vars, rargs, args, api_key, master, rpc>>

\* llm lines 342-344
LlmWrite ==
    /\ lpc = "write"
    /\ master' = rows
    /\ written' = written \cup {MasterPath}
    /\ lpc' = "done"
    /\ UNCHANGED <<synth_vars, build_vars, rargs, args, api_key, cache_file, rows, cache, li,
                   attempt, generated, last_err, llm_ex2, rpc>>

NextLLM ==
    \/ RebuildRunBuild
    \/ BuildLoad
    \/ BuildRow
    \/ RebuildAfterBuild
    \/ RebuildReturn
    \/ LlmStart
    \/ LlmRow
    \/ LlmAttempt
    \/ LlmWrite

SpecLLM == InitLLM /\ [][NextLLM]_vars

\* llm_expand_examples.main keeps running until it exits, and every remote
\* call returns or raises (urlopen has a timeout)
FairSpecLLM ==
    /\ SpecLLM
    /\ WF_vars(LlmStart)
    /\ WF_vars(LlmRow)
    /\ WF_vars(LlmAttempt)
    /\ WF_vars(LlmWrite)

-----------------------------------------------------------------------------
(* Properties of the synthesis engine.                                     *)

Ex2Done == pc \in {"ex2", "done"}
Ex3Done == pc = "done"
IsMeeting(r) == endswith(r.deck, meeting_phrases)

\* The ten conditions of make_example2's classification, in the stated order.
C1_Conds(r) ==
    << in_specials(r.japanese),
       contains(r.japanese, nami),
       endswith(r.japanese, ha)
           /\ (contains(r.english, <<"?">>) \/ contains(lower(r.english), evidence)),
       endswith(r.japanese, shimasu),
       endswith(r.japanese, kudasai),
       IsMeeting(r) /\ r.japanese \in {nen_no_tame, tsuika_de},
       endswith(r.japanese, ka) \/ endswith(r.english, <<"?">>),
       endswith(r.japanese, desu),
       IsMeeting(r),
       TRUE >>

C1_Branches == <<"special", "placeholder", "stem", "v1", "v2", "v3", "v4", "v5", "m1", "t1">>
C1_Counts == <<0, 0, 0, 4, 3, 3, 3, 3, 5, 10>>

C1_First(r) ==
    CHOOSE k \in 1..10 : C1_Conds(r)[k] /\ \A j \in 1..(k - 1) : ~C1_Conds(r)[j]

\* C1: make_example2 returns what the earliest of the ten conditions that
\* holds of the record produces: that branch's fixed triple, or a template of
\* that branch's catalog (of the stated size), selected with the seed
\* deck|term|reading|gloss plus that branch's suffix.
C1_FirstMatchWins ==
    Ex2Done =>
        LET k == C1_First(row)
            b == C1_Branches[k]
        IN  /\ ex2.branch = b
            /\ ex2.n = C1_Counts[k]
            /\ k = 1 => <<ex2.jp, ex2.hira, ex2.en>> \in
                            {<<specials[i][2], specials[i][3], specials[i][4]>> :
                                i \in {i \in DOMAIN specials : specials[i][1] = row.japanese}}
            /\ k = 3 => ex2.jp = row.japanese \o arimasuka
            /\ k >= 4 =>
                /\ Len(frames2[b]) = C1_Counts[k]
                /\ ex2.seed = seed_of(row) \o suffix[b]
                /\ ex2.index \in 0..(C1_Counts[k] - 1)
                /\ k # 7 => ex2.jp = format(frames2[b][ex2.index + 1][1], "{t}", row.japanese)

\* a record of which a later condition (8, です) holds too, and the earlier (7) won
C1_Witness ==
    /\ pc = "ex2"
    /\ ex2.branch = "v4"
    /\ endswith(row.japanese, desu)
    /\ IsMeeting(row)

\* C2: make_example3 returns a template of the catalog of the earliest of its
\* five conditions that holds; in a meeting deck the term 念のため selects
\* from the 3-template "|nen" catalog and never from the generic "|m" one.
C2_FirstMatchWins ==
    Ex3Done =>
        LET jp == row.japanese
            b == IF IsMeeting(row) /\ contains(jp, sasete_kudasai) THEN "mperm"
                 ELSE IF endswith(jp, kudasai) THEN "kudasai"
                 ELSE IF endswith(jp, shimasu) THEN "suru"
                 ELSE IF IsMeeting(row) /\ jp = nen_no_tame THEN "nen"
                 ELSE IF IsMeeting(row) THEN "m"
                 ELSE "t"
            count == CASE b = "mperm" -> 3 [] b = "kudasai" -> 3 [] b = "suru" -> 4
                       [] b = "nen" -> 3 [] b = "m" -> 4 [] b = "t" -> 5
        IN  /\ ex3.branch = b
            /\ ex3.n = count
            /\ Len(frames3[b]) = count
            /\ ex3.seed = seed_of(row) \o <<"|", "e", "x", "3">> \o suffix[b]
            /\ ex3.index \in 0..(count - 1)
            /\ ex3.jp = format(frames3[b][ex3.index + 1][1], "{t}", jp)
            /\ (IsMeeting(row) /\ jp = nen_no_tame) =>
                   \A i \in DOMAIN frames3_m : ex3.jp # format(frames3_m[i][1], "{t}", jp)

C2_Witness ==
    /\ pc = "done"
    /\ IsMeeting(row)
    /\ row.japanese = nen_no_tame
    /\ ex3.branch = "nen"
    /\ ex3.index = 2

\* C3: for a term without the marker 〜, the Japanese sentence of
\* make_example2 and that of make_example3 each contain the term.
C3_TermContainment ==
    ~contains(row.japanese, nami) =>
        /\ Ex2Done => contains(ex2.jp, row.japanese)
        /\ Ex3Done => contains(ex3.jp, row.japanese)

\* C4: for a record with non-empty term and gloss, all three fields of both
\* returned triples are non-empty.  Stated for the records whose reading is
\* non-empty too, as the data model requires of a non-empty term.
C4_Totality ==
    (row.japanese # <<>> /\ row.english # <<>> /\ row.hiragana # <<>>) =>
        /\ Ex2Done => (ex2.jp # <<>> /\ ex2.hira # <<>> /\ ex2.en # <<>>)
        /\ Ex3Done => (ex3.jp # <<>> /\ ex3.hira # <<>> /\ ex3.en # <<>>)

\* C5: the triple of make_example2 differs from the triple of make_example3,
\* for every pair of indices the selection picks.
C5_NonCollision ==
    Ex3Done => <<ex2.jp, ex2.hira, ex2.en>> # <<ex3.jp, ex3.hira, ex3.en>>

\* a ください term for which both functions selected "すみません、{t}。"
C5_Witness ==
    /\ pc = "done"
    /\ ex2.branch = "v2" /\ ex2.index = 0
    /\ ex3.branch = "kudasai" /\ ex3.index = 2
    /\ ex2.jp = ex3.jp

\* C9: a synthesized triple passes validate_example2 for the record's term.
\* Stated for the records the data model admits (a term has a phonetic
\* reading) and whose term has no marker 〜 (the data model exempts those
\* from containing the term).
C9_RoundTrip ==
    (/\ row.japanese # <<>> /\ row.english # <<>>
     /\ is_hiraganaish(row.hiragana)
     /\ ~contains(row.japanese, nami)) =>
        /\ Ex2Done => validate_example2(ex2, row.japanese) = "None"
        /\ Ex3Done => validate_example2(ex3, row.japanese) = "None"

\* C10: in the question-form branch the Japanese sentence ends in か or ？
\* and the English sentence ends in "?".
C10_QuestionForm ==
    (Ex2Done /\ ex2.branch = "v4") =>
        /\ endswith(ex2.jp, ka) \/ endswith(ex2.jp, qfw)
        /\ endswith(ex2.en, <<"?">>)

\* the template "{t}。" filled with a term that does not end in か: the full
\* stop was replaced by ？ and "?" was appended to the gloss
C10_Witness ==
    /\ pc = "ex2"
    /\ ex2.branch = "v4" /\ ex2.index = 1
    /\ ~endswith(row.japanese, ka)
    /\ ex2.jp = row.japanese \o qfw
    /\ ex2.en = <<"a", "?">>

-----------------------------------------------------------------------------
(* Properties of the merge.                                                *)

FileRowsOf(file) == {file[k] : k \in DOMAIN file}
Complete(cells) == strip(cells.jp) # <<>> /\ strip(cells.en) # <<>>
KeyOf(f, r) == strip(f.Deck) = r.deck /\ strip(f.Japanese) = r.japanese

\* slot 1 of a row of the combined file: Example1_*, else the Example_* column
CombinedSlot1(f) ==
    [jp |-> or(f.Example1.jp, f.Example.jp), hira |-> or(f.Example1.hira, f.Example.hira),
     en |-> or(f.Example1.en, f.Example.en)]

\* the written (jp, hira, en) is the override cells, its reading backfilled
\* from its own Japanese when the cell is empty
FromOverride(w, cells, r) ==
    /\ w[1] = strip(cells.jp)
    /\ w[3] = strip(cells.en)
    /\ w[2] = or(strip(cells.hira), make_reading(strip(cells.jp), r.japanese, r.hiragana))

\* C6: every written row takes slot 1 from the example-1 file's entry for
\* (deck, term), else from the combined file's slot 1 if its JP and EN are
\* both non-empty, else from the record; slots 2 and 3 from the combined
\* file's slot if its JP and EN are both non-empty, else from make_example2 /
\* make_example3.  JP and EN of a slot always come from the same source.
C6_Resolution ==
    \A k \in DOMAIN out :
        LET r == all_rows[k]
            w == out[k]
            w1 == <<w.Example_JP, w.Example_Hiragana, w.Example_EN>>
            w2 == <<w.Example2_JP, w.Example2_Hiragana, w.Example2_EN>>
            w3 == <<w.Example3_JP, w.Example3_Hiragana, w.Example3_EN>>
            e1 == {f \in FileRowsOf(manual_ex1_file) : KeyOf(f, r) /\ Complete(f.Example)}
            m == {f \in FileRowsOf(manual_file) : KeyOf(f, r)}
        IN  /\ IF e1 # {} THEN \E f \in e1 : FromOverride(w1, f.Example, r)
               ELSE IF \E f \in m : Complete(CombinedSlot1(f))
               THEN \E f \in m : FromOverride(w1, CombinedSlot1(f), r)
               ELSE w1 = <<r.example_jp, r.example_hiragana, r.example_en>>
            /\ IF \E f \in m : Complete(f.Example2)
               THEN \E f \in m : FromOverride(w2, f.Example2, r)
               ELSE \E h \in Digests :
                      LET e == make_example2(r, h) IN w2 = <<e.jp, e.hira, e.en>>
            /\ IF \E f \in m : Complete(f.Example3)
               THEN \E f \in m : FromOverride(w3, f.Example3, r)
               ELSE \E h \in Digests :
                      LET e == make_example3(r, h) IN w3 = <<e.jp, e.hira, e.en>>

\* a written row whose example-1 entry was skipped as incomplete, whose
\* combined slot 1 is incomplete too (the record's example is written), whose
\* slot 2 is a complete override without reading and whose slot 3 is
\* synthesized although the override has its Japanese
C6_Witness ==
    /\ bpc = "done"
    /\ Len(out) = 1
    /\ all_rows = <<TechRow>>
    /\ manual_ex1_file # <<>> /\ manual_ex1 = EmptyDict
    /\ manual_file # <<>>
    /\ manual_file[1].Example1.jp = OverrideJP /\ manual_file[1].Example1.en = <<>>
    /\ manual_file[1].Example2.hira = <<>>
    /\ manual_file[1].Example3.jp = OverrideJP /\ manual_file[1].Example3.en = <<>>
    /\ out[1].Example_JP = TechRow.example_jp
    /\ out[1].Example2_JP = OverrideJP /\ out[1].Example2_EN = OverrideEN
    /\ out[1].Example2_Hiragana = OverrideHira
    /\ out[1].Example3_JP # OverrideJP

-----------------------------------------------------------------------------
(* Properties of the remote stage.                                         *)

\* C7: an invocation that exits for a missing OPENAI_API_KEY
\* (llm_expand_examples.main, or rebuild_vocab_master.main --with-llm) has
\* written no file before the exit.
C7_NoOutputBeforeExit ==
    (/\ strip(api_key) = <<>>
     /\ \/ lpc = "error"
        \/ rpc = "error") => written = {}

Example2Of(r) == [jp |-> r.Example2_JP, hira |-> r.Example2_Hiragana, en |-> r.Example2_EN]

Gate(e, term) ==
    /\ contains(e.jp, term)
    /\ is_hiraganaish(e.hira)
    /\ Len(e.jp) <= MaxJpLen
    /\ Len(e.en) <= MaxEnLen

\* C8: an attempt changes the rows, the cache or the cache file only with a
\* response that contains the row's term, has a non-empty phonetic reading,
\* a Japanese sentence of at most 140 characters and an English one of at
\* most 200; what is then in the row and in the cache is that response.
C8_ValidationGate ==
    [][lpc = "attempt" /\ (rows' # rows \/ cache' # cache \/ cache_file' # cache_file)
        => /\ Gate(llm_ex2', japanese_of(rows[li]))
           /\ Example2Of(rows'[li]) = llm_ex2'
           /\ cache'[key_of(rows[li])] = Example2Cells(llm_ex2'.jp, llm_ex2'.hira, llm_ex2'.en)
           /\ cache_file' = append_jsonl(cache_file, key_of(rows[li]), cache'[key_of(rows[li])])
           /\ \A k \in DOMAIN rows : k # li => rows'[k] = rows[k]]_vars

\* a response with a sentence of 141 characters was rejected, and the next
\* one, of 140 characters and 200 of English, is in the row and in the cache
C8_Witness ==
    /\ generated = 1
    /\ last_err = "jp_long"
    /\ Len(llm_ex2.jp) = MaxJpLen
    /\ Len(llm_ex2.en) = MaxEnLen
    /\ Example2Of(rows[1]) = llm_ex2
    /\ key_of(rows[1]) \in DOMAIN cache
    /\ cache_file # <<>>
    /\ CachePath \in written

-----------------------------------------------------------------------------
(* Properties of the reading aligner and of the seeds.                     *)

\* the positions where t occurs in s
Occurrences(s, t) == {i \in 1..(Len(s) + 1) : StartsAt(s, t, i)}

\* res is s with the occurrences of t, taken from the left without overlap,
\* replaced by r, and every other character kept in place; an empty t occurs
\* before every character and at the end
RECURSIVE Aligned(_, _, _, _)
Aligned(s, res, t, r) ==
    IF t = <<>>
    THEN /\ Len(res) = Len(s) + (Len(s) + 1) * Len(r)
         /\ \A k \in 0..Len(s) : StartsAt(res, r, k * (Len(r) + 1) + 1)
         /\ \A k \in 1..Len(s) : res[k * (Len(r) + 1)] = s[k]
    ELSE IF Occurrences(s, t) = {} THEN res = s
    ELSE LET i == CHOOSE k \in Occurrences(s, t) : \A j \in Occurrences(s, t) : k <= j
         IN  /\ Len(res) >= i - 1 + Len(r)
             /\ SubSeq(res, 1, i - 1) = SubSeq(s, 1, i - 1)
             /\ SubSeq(res, i, i + Len(r) - 1) = r
             /\ Aligned(SubSeq(s, i + Len(t), Len(s)),
                        SubSeq(res, i + Len(r), Len(res)), t, r)

\* the sentence whose reading make_reading produced last, if the function
\* that just returned built it from a template
Templated ==
    {e \in (IF pc = "ex2" THEN {ex2} ELSE IF pc = "done" THEN {ex3} ELSE {}) : e.n > 0}

\* C11: the reading make_reading returns for a sentence is the sentence with
\* every occurrence of the term replaced by the term's reading and nothing
\* else changed when the term occurs in the sentence, and is empty when it
\* does not.
C11_ReadingAligner ==
    \A e \in Templated :
        IF Occurrences(e.jp, row.japanese) # {}
        THEN Aligned(e.jp, e.hira, row.japanese, row.hiragana)
        ELSE e.hira = <<>>

\* a term that occurs more than once in the sentence, with a reading of
\* another length
C11_Witness ==
    /\ Ex2Done
    /\ ex2.n > 0
    /\ row.japanese # <<>>
    /\ Len(row.hiragana) > Len(row.japanese)
    /\ Cardinality(Occurrences(ex2.jp, row.japanese)) >= 2
    /\ Len(ex2.hira) = Len(ex2.jp)
            + Cardinality(Occurrences(ex2.jp, row.japanese))
                * (Len(row.hiragana) - Len(row.japanese))

\* the records that differ from r in exactly one of deck, term, reading, gloss
OneFieldAway(r) ==
    {[r EXCEPT !.deck = d] : d \in Decks \ {r.deck}}
        \cup {[r EXCEPT !.japanese = t] : t \in Terms \ {r.japanese}}
        \cup {[r EXCEPT !.hiragana = t] : t \in Readings \ {r.hiragana}}
        \cup {[r EXCEPT !.english = t] : t \in Glosses \ {r.english}}

\* the seed string each function builds for a record (none in the branches
\* of make_example2 that return before the seed is used)
Seed2(r) ==
    IF branch2(r) \in DOMAIN frames2 THEN seed_of(r) \o suffix[branch2(r)] ELSE <<>>
Seed3(r) == seed_of(r) \o <<"|", "e", "x", "3">> \o suffix[branch3(r)]

\* C12: a record that differs from the state's record in exactly one of
\* deck, term, reading, gloss gets another seed from make_example2 (whatever
\* its branch, where both build a seed) and another seed from make_example3
\* when both are in the same branch.  The seeds are functions of the record:
\* what each function built is compared with them where it returns, and the
\* records one field away are gone through once per record.
C12_SeedSeparation ==
    /\ (pc = "ex2" /\ ex2.n > 0) => ex2.seed = Seed2(row)
    /\ (pc = "ex2" /\ ex2.n = 0) => Seed2(row) = <<>>
    /\ pc = "done" => ex3.seed = Seed3(row)
    /\ pc = "start" =>
          LET s2 == Seed2(row)
              s3 == Seed3(row)
              b3 == branch3(row)
          IN  \A r2 \in OneFieldAway(row) :
                  /\ (s2 # <<>> /\ Seed2(r2) # <<>>) => s2 # Seed2(r2)
                  /\ branch3(r2) = b3 => s3 # Seed3(r2)

\* both seeds are built, and among the records one field away there is one
\* in another branch of make_example2 and, for each of the four fields, one
\* in the same branch of make_example3
C12_Witness ==
    /\ Ex3Done
    /\ ex2.n > 0
    /\ row.deck = TechRow.deck
    /\ row.japanese = TechRow.japanese
    /\ row.hiragana # <<>>
    /\ row.english = <<"a">>
    /\ \E r2 \in OneFieldAway(row) : Seed2(r2) # <<>> /\ branch2(r2) # ex2.branch
    /\ \E r2 \in OneFieldAway(row) : r2.deck # row.deck /\ branch3(r2) = ex3.branch
    /\ \E r2 \in OneFieldAway(row) : r2.japanese # row.japanese /\ branch3(r2) = ex3.branch
    /\ \E r2 \in OneFieldAway(row) : r2.hiragana # row.hiragana /\ branch3(r2) = ex3.branch
    /\ \E r2 \in OneFieldAway(row) : r2.english # row.english /\ branch3(r2) = ex3.branch

-----------------------------------------------------------------------------
(* Properties of llm_expand_examples.main's loop.                          *)

\* one call of generate_example2: accepted (the generation is counted), or
\* failed by an exception or a validation error
C13_Attempt ==
    lpc = "attempt" =>
        LET passed == generated' = generated + 1
        IN  /\ attempt \in 1..3
            /\ passed => lpc' # "attempt" /\ li' = li + 1
            /\ (~passed /\ attempt < 3) =>
                  lpc' = "attempt" /\ attempt' = attempt + 1 /\ li' = li
            /\ (~passed /\ attempt = 3) => lpc' # "attempt" /\ li' = li + 1

\* C13: for a row to generate, generate_example2 is called at most 3 times;
\* the attempts stop at the first accepted response, a failure uses up one
\* attempt, after the third failure the loop goes to the next row, and the
\* run reaches write_csv_rows.
C13_BoundedRetry ==
    /\ [][C13_Attempt]_vars
    /\ (lpc \in {"loop", "attempt"}) ~> (lpc = "write")

\* a run over two rows, both given up after three failed attempts, that has
\* written its output
C13_Witness ==
    /\ lpc = "done"
    /\ attempt = 3
    /\ generated = 0
    /\ last_err = "exception"
    /\ rows = <<RowA, RowC>>
    /\ li = 3
    /\ master = rows
    /\ MasterPath \in written

CellsOf(r) == Example2Cells(r.Example2_JP, r.Example2_Hiragana, r.Example2_EN)

\* the rows the run is to generate an Example2 for: of the --deck, with a
\* term and a gloss, and (unless --force) with an Example2 cell left blank
Wanted(r) ==
    /\ args.deck = <<>> \/ deck_of(r) = args.deck
    /\ japanese_of(r) # <<>>
    /\ english_of(r) # <<>>
    /\ \/ args.force
       \/ strip(r.Example2_JP) = <<>>
       \/ strip(r.Example2_Hiragana) = <<>>
       \/ strip(r.Example2_EN) = <<>>

-----------------------------------------------------------------------------
(* Property of the two template catalogs.                                  *)

\* C15: the Japanese sentence of Example-3 differs from the one of Example-2
\* for every record and every pair of selected indices (no Japanese template
\* of make_example3 being one of make_example2).
C15_DisjointCatalogs ==
    Ex3Done => ex3.jp # ex2.jp

-----------------------------------------------------------------------------
(* Properties of --limit and of a row given up.                            *)

\* C16: with --limit N > 0 the successful remote generations of a run, one
\* per row set from a response, never exceed N; once there are N the loop is
\* left and no later row is generated or filled from the cache; a row filled
\* from the cache is not counted; with N = 0 the loop is left only after
\* the last row.
C16_Limit ==
    /\ [](args.limit > 0 =>
            /\ generated <= args.limit
            /\ generated = args.limit => lpc \in {"write", "done"})
    /\ [][/\ lpc = "attempt" => (generated' = generated + 1 <=> rows' # rows)
          /\ lpc = "attempt" => generated' \in {generated, generated + 1}
          /\ lpc = "loop" => generated' = generated
          /\ lpc \in {"write", "done"} => (rows' = rows /\ cache' = cache
                                            /\ generated' = generated)
          /\ (args.limit = 0 /\ lpc \in {"loop", "attempt"} /\ lpc' = "write")
                => li' = Len(rows) + 1]_vars

\* --limit 1 and two rows to generate: the first was generated, the second
\* was not looked at
C16_Witness ==
    /\ lpc = "done"
    /\ args.limit = 1
    /\ generated = 1
    /\ Len(rows) = 2
    /\ li = 2
    /\ Example2Of(rows[1]) = llm_ex2
    /\ rows[2] = RowC
    /\ master = rows

\* C17: during the attempts for a row its Example2 fields are the ones of
\* the input; a failed attempt (an exception or a validation error), the
\* third included, changes neither the rows nor the cache nor the cache
\* file; and the run goes on to write all its rows to the output.
C17_FailureKeepsRow ==
    /\ [](lpc = "attempt" => Example2Of(rows[li]) = Example2Of(master[li]))
    /\ [][(lpc = "attempt" /\ generated' = generated)
            => /\ rows' = rows
               /\ cache' = cache
               /\ cache_file' = cache_file
               /\ written' = written]_vars
    /\ [][lpc = "write" => master' = rows]_vars
    /\ (lpc = "attempt") ~> (lpc = "done" /\ master = rows)

\* --force, two rows: the first, whose Example2 was complete, was given up
\* after three failures and is written as it was; the second was generated
\* and is the only entry of the cache and of the cache file
C17_Witness ==
    /\ lpc = "done"
    /\ args.force
    /\ args.deck = <<>>
    /\ Len(rows) = 2
    /\ rows[1] = RowB
    /\ generated = 1
    /\ Example2Of(rows[2]) = llm_ex2
    /\ DOMAIN cache = {key_of(rows[2])}
    /\ Len(cache_file) = 1
    /\ cache_file[1].key = key_of(rows[2])
    /\ master = rows

====
